---- MODULE Spec2Model ----
(***************************************************************************)
(* Collapsible code blocks: the live-editing surface's fold store, its     *)
(* reducer, the auto-expand transaction filter, the region locator and the *)
(* default-state initialisation of the toggle widget (src/src/editView.ts).*)
(*                                                                         *)
(* Offsets are CodeMirror offsets (0-based); a document is a sequence of   *)
(* one-character strings, so the character at offset p is d[p + 1].        *)
(***************************************************************************)
EXTENDS Integers, Sequences, FiniteSets, TLC

VARIABLES
    doc,                \* EditorState.doc of the live-editing view
    folds,              \* value of the fold StateField: ranges sorted by from
    positions,          \* value of the codeBlockPositions StateField
    path,               \* path of the active file (workspace.getActiveViewOfType(MarkdownView).file.path)
    frontmatter,        \* metadataCache frontmatter['code-blocks'] of the active file (a front-matter value)
    defaultCollapsed,   \* settings.defaultCollapsed
    initializedBlocks,  \* FoldWidget.initializedBlocks (static Set<string>)
    pending,            \* requestAnimationFrame callbacks not yet run, FIFO
    last,               \* the last step taken and what it dispatched (history)
    initCount,          \* blockId -> default resolutions since the last file-open (history)
    userExpanded,       \* start offsets of regions the user expanded against a collapsed default (history)
    nEdits,             \* number of edits so far (bounded)
    nOpens,             \* number of file-open events so far (bounded)
    left,               \* path -> the folded states of a note's regions when it was left (history)
    locDoc,             \* Region Locator harness: document handed to the locator
    locBegins,          \* Region Locator harness: line starts the syntax layer marks as fence opening
    locOut,             \* Region Locator harness: result of findCodeBlockPositions
    resFm,              \* Default-State Resolver harness: the front-matter value of the active file
    resDefault,         \* Default-State Resolver harness: settings.defaultCollapsed
    resOut,             \* Default-State Resolver harness: what each surface resolved
    preview,            \* preview surface: the pre elements of the rendered document and their classes
    pvLast,             \* preview surface: the last step taken on it (history)
    records,            \* preview surface: mutation records queued for the content observer; each
                        \* is the set of pre elements below the record's target
    collapsedLines,     \* settings.collapsedLines, the value the fold renderer reads
    typed               \* settings panel: the text last typed into the collapsed-lines field (history)

vars == <<doc, folds, positions, path, frontmatter, defaultCollapsed, initializedBlocks, pending,
          last, initCount, userExpanded, nEdits, nOpens, left, locDoc, locBegins, locOut,
          resFm, resDefault, resOut, preview, pvLast, records,
          collapsedLines, typed>>

editorVars == <<doc, folds, positions, path, frontmatter, defaultCollapsed, initializedBlocks, pending,
                last, initCount, userExpanded, nEdits, nOpens, left>>

locVars == <<locDoc, locBegins, locOut>>

resVars == <<resFm, resDefault, resOut>>

cfgVars == <<collapsedLines, typed>>

\* the variables of the harnesses, which no handler of the two surfaces touches
harnessVars == <<locVars, resVars, cfgVars>>

previewVars == <<preview, pvLast, records>>

----------------------------------------------------------------------------
(* Bounds of the model *)

MaxEdits == 1       \* document edits per behaviour
MaxOpens == 1       \* file-open events per behaviour
MaxSwitches == 2    \* file-open events of a behaviour that switches between the notes
MaxDelete == 2      \* length of a deleted or replaced range (whole regions can always be deleted)
MaxLocLines == 3    \* lines of a document handed to the locator harness
MaxCollapsedLines == 2   \* largest settings.collapsedLines the summary view is drawn with
NumPreBlocks == 2        \* pre elements of the rendered preview
MaxRecords == 2          \* mutation records of user clicks waiting for one observer callback
MaxTyped == 3            \* characters typed into the collapsed-lines field

BT == "b"      \* stands for one backtick character
NL == "\n"
SP == " "
CX == "x"

----------------------------------------------------------------------------
(* Text: lines of a document (Text.lineAt, Text.line, Line.from, Line.to) *)

\* F(x) with x evaluated once, before F is applied
Strict(F(_), x) == CHOOSE r \in {F(w) : w \in {x}} : TRUE

Min(S) == CHOOSE x \in S : \A y \in S : x <= y
Max(S) == CHOOSE x \in S : \A y \in S : x >= y

\* one pass over the text from offset p, the current line having started at from
RECURSIVE ScanLines(_, _, _)
ScanLines(d, from, p) ==
    IF p = Len(d) THEN <<[from |-> from, to |-> p]>>
    ELSE IF d[p + 1] = NL THEN <<[from |-> from, to |-> p]>> \o ScanLines(d, p + 1, p + 1)
    ELSE ScanLines(d, from, p + 1)

\* the lines of a document in order, doc.line(i) for i in 1..doc.lines: Line.from and
\* Line.to (the line break is not part of the line)
Lines(d) == ScanLines(d, 0, 0)

\* Line.text
LineText(d, l) == SubSeq(d, l.from + 1, l.to)

\* doc.lineAt(pos).number
LineNumberAt(L, pos) == CHOOSE i \in 1..Len(L) : L[i].from <= pos /\ pos <= L[i].to

\* String.prototype.trim, as far as startsWith can see it: leading blanks removed
RECURSIVE TrimStart(_)
TrimStart(t) == IF t # <<>> /\ Head(t) = SP THEN TrimStart(Tail(t)) ELSE t

\* line.text.trim().startsWith(three backticks)
StartsWithFence(t) ==
    LET s == TrimStart(t)
    IN  Len(s) >= 3 /\ s[1] = BT /\ s[2] = BT /\ s[3] = BT

\* the numbers of the lines whose trimmed text starts with three backticks
FenceLineNumbers(d, L) == {i \in 1..Len(L) : StartsWithFence(LineText(d, L[i]))}

----------------------------------------------------------------------------
(* Region Locator *)

\* the scan that never finds the closing fence: every span runs to the last line
BlockSpanToLastLine(d, L, fence, i) ==
    [startPos |-> L[i].from, endPos |-> L[Len(L)].to]

\* the scan of findCodeBlockPositions from the marked line i: the span it pushes
BlockSpan(d, L, fence, i) ==
    LET closes == {j \in fence : j > i}
    IN  IF closes # {}
        THEN [startPos |-> L[i].from, endPos |-> L[Min(closes)].to]
        ELSE [startPos |-> L[i].from, endPos |-> L[Len(L)].to]

\* the walk that trusts the syntax layer and does not look at the line's text
RECURSIVE PositionsOfMarkedLines(_, _, _, _, _)
PositionsOfMarkedLines(d, L, fence, begins, i) ==
    IF i > Len(L) THEN <<>>
    ELSE (IF L[i].from \in begins
          THEN <<BlockSpan(d, L, fence, i)>> ELSE <<>>)
         \o PositionsOfMarkedLines(d, L, fence, begins, i + 1)

\* the nodes are entered in document order: lines i..Len(L) are still to visit
RECURSIVE PositionsFrom(_, _, _, _, _)
PositionsFrom(d, L, fence, begins, i) ==
    IF i > Len(L) THEN <<>>
    ELSE (IF L[i].from \in begins /\ i \in fence
          THEN <<BlockSpan(d, L, fence, i)>> ELSE <<>>)
         \o PositionsFrom(d, L, fence, begins, i + 1)

\* findCodeBlockPositions(state): begins are the starts of the lines holding a node
\* whose name includes HyperMD-codeblock-begin
findCodeBlockPositions(d, begins) ==
    CHOOSE ps \in {PositionsFrom(d, L, fence, begins, 1) :
                     <<L, fence>> \in {<<ls, FenceLineNumbers(d, ls)>> : ls \in {Lines(d)}}} : TRUE

----------------------------------------------------------------------------
(* Syntax layer of the host (HyperMD line classes), a pure oracle of the     *)
(* document: a line is a fence opening when it is outside a fenced block and *)
(* starts with at least three backticks followed by no further backtick; the *)
(* block is closed by a line of at least as many backticks and blanks only.  *)

RECURSIVE LeadingTicks(_)
LeadingTicks(t) == IF t # <<>> /\ Head(t) = BT THEN 1 + LeadingTicks(Tail(t)) ELSE 0

FenceLen(t) == LeadingTicks(TrimStart(t))

FenceRest(t) ==
    LET s == TrimStart(t) IN SubSeq(s, FenceLen(t) + 1, Len(s))

IsOpeningFence(t) ==
    FenceLen(t) >= 3 /\ \A i \in 1..Len(FenceRest(t)) : FenceRest(t)[i] # BT

IsClosingFence(t, n) ==
    FenceLen(t) >= n /\ \A i \in 1..Len(FenceRest(t)) : FenceRest(t)[i] = SP

\* lines i..Len(L) are still to classify; open: length of the open fence, 0 outside a block
RECURSIVE ClassifyLines(_, _, _, _)
ClassifyLines(d, L, i, open) ==
    IF i > Len(L) THEN {}
    ELSE LET t == LineText(d, L[i])
         IN  IF open = 0
             THEN IF IsOpeningFence(t)
                  THEN {L[i].from} \cup ClassifyLines(d, L, i + 1, FenceLen(t))
                  ELSE ClassifyLines(d, L, i + 1, 0)
             ELSE IF IsClosingFence(t, open)
                  THEN ClassifyLines(d, L, i + 1, 0)
                  ELSE ClassifyLines(d, L, i + 1, open)

\* syntaxTree(state): the line starts carrying HyperMD-codeblock-begin
SyntaxBegins(d) == UNION {ClassifyLines(d, L, 1, 0) : L \in {Lines(d)}}

\* codeBlockPositions.create / update: recomputed from the state on every transaction
codeBlockPositions(d) == findCodeBlockPositions(d, SyntaxBegins(d))

Range(s) == {s[i] : i \in DOMAIN s}

----------------------------------------------------------------------------
(* Document changes and position mapping (one change range per transaction) *)

\* a change replaces [fromA, toA) by the text ins
ApplyChange(d, c) == SubSeq(d, 1, c.fromA) \o c.ins \o SubSeq(d, c.toA + 1, Len(d))

\* ChangeDesc.mapPos(pos, assoc) for assoc < 0, the association of both sides of
\* a block replace decoration with inclusiveStart: true, inclusiveEnd: false
\* (MapPosUnmoved: a store whose offsets do not follow the text)
MapPosUnmoved(pos, c) == pos

MapPos(pos, c) ==
    IF pos < c.fromA THEN pos
    ELSE IF pos < c.toA \/ (pos = c.toA /\ c.fromA = c.toA) THEN c.fromA
    ELSE pos - (c.toA - c.fromA) + Len(c.ins)

\* a mapping that keeps the ranges mapped to zero width
RECURSIVE MapFoldsKeepingEmpty(_, _)
MapFoldsKeepingEmpty(fs, c) ==
    IF fs = <<>> THEN <<>>
    ELSE <<[from |-> MapPos(Head(fs).from, c), to |-> MapPos(Head(fs).to, c),
            capturedFrom |-> Head(fs).capturedFrom, capturedTo |-> Head(fs).capturedTo]>>
         \o MapFoldsKeepingEmpty(Tail(fs), c)

\* folds.map(tr.changes): both ends are mapped; a range mapped to zero width is dropped
RECURSIVE MapFolds(_, _)
MapFolds(fs, c) ==
    IF fs = <<>> THEN <<>>
    ELSE LET f  == Head(fs)
             nf == MapPos(f.from, c)
             nt == MapPos(f.to, c)
         IN  (IF nf >= nt THEN <<>>
              ELSE <<[from |-> nf, to |-> nt,
                      capturedFrom |-> f.capturedFrom, capturedTo |-> f.capturedTo]>>)
             \o MapFolds(Tail(fs), c)

NoChange == [fromA |-> 0, toA |-> 0, ins |-> <<>>]

DocChanged(c) == c.fromA # c.toA \/ c.ins # <<>>

----------------------------------------------------------------------------
(* Fold State Store: the reducer of the fold StateField *)

\* toggleFoldEffect.of({from, to, defaultState}); defaultState is "true", "false" or "undefined"
Effect(from, to, ds) == [from |-> from, to |-> to, defaultState |-> ds]

\* a between that visits only the ranges lying inside [from, to]
TouchesInside(f, from, to) == from <= f.from /\ f.to <= to

\* folds.between(from, to, ...) visits the ranges that overlap or touch [from, to]
Touches(f, from, to) == f.from <= to /\ f.to >= from

\* hasFold decided by exact bounds instead of folds.between
HasFoldExactly(fs, from, to) == \E i \in 1..Len(fs) : fs[i].from = from /\ fs[i].to = to

\* hasFold never set: the callback of folds.between left out
HasFoldNever(fs, from, to) == FALSE

\* folds.between(from, to, () => { hasFold = true })
HasFold(fs, from, to) == \E i \in 1..Len(fs) : Touches(fs[i], from, to)

\* a filter that drops every entry overlapping or touching [from, to]
FilterFoldsTouching(fs, from, to) == SelectSeq(fs, LAMBDA f : ~(f.from <= to /\ f.to >= from))

\* a filter that keeps nothing
FilterFoldsAll(fs, from, to) == <<>>

\* folds.update({filter: (fromPos, toPos) => fromPos !== from || toPos !== to})
FilterFolds(fs, from, to) == SelectSeq(fs, LAMBDA f : f.from # from \/ f.to # to)

\* folds.update({add: [deco.range(from, to)]}): the set stays sorted by from
AddFold(fs, from, to) ==
    LET k == Cardinality({i \in 1..Len(fs) : fs[i].from <= from})
    IN  SubSeq(fs, 1, k)
        \o <<[from |-> from, to |-> to, capturedFrom |-> from, capturedTo |-> to]>>
        \o SubSeq(fs, k + 1, Len(fs))

\* the loop body reading a missing defaultState as true
ApplyEffectNeverToggles(fs, e) ==
    IF e.defaultState = "false" THEN FilterFolds(fs, e.from, e.to)
    ELSE IF ~HasFold(fs, e.from, e.to) THEN AddFold(fs, e.from, e.to)
    ELSE fs

\* the loop body without the !hasFold test before the add
ApplyEffectAlwaysAdds(fs, e) ==
    LET hasFold    == HasFold(fs, e.from, e.to)
        shouldFold == IF e.defaultState # "undefined" THEN e.defaultState = "true" ELSE ~hasFold
    IN  IF ~shouldFold THEN FilterFolds(fs, e.from, e.to)
        ELSE AddFold(fs, e.from, e.to)

\* the body of the loop over tr.effects for one toggleFoldEffect
ApplyEffect(fs, e) ==
    LET hasFold    == HasFold(fs, e.from, e.to)
        shouldFold == IF e.defaultState # "undefined" THEN e.defaultState = "true" ELSE ~hasFold
    IN  IF ~shouldFold THEN FilterFolds(fs, e.from, e.to)
        ELSE IF ~hasFold THEN AddFold(fs, e.from, e.to)
        ELSE fs

\* the loop over tr.effects run from the last request to the first
RECURSIVE ApplyEffectsLastFirst(_, _)
ApplyEffectsLastFirst(fs, es) ==
    IF es = <<>> THEN fs
    ELSE Strict(LAMBDA w : ApplyEffect(w, Head(es)), ApplyEffectsLastFirst(fs, Tail(es)))

\* for (let effect of tr.effects): one request after the other
RECURSIVE ApplyEffects(_, _)
ApplyEffects(fs, es) ==
    IF es = <<>> THEN fs
    ELSE Strict(LAMBDA w : ApplyEffects(w, Tail(es)), ApplyEffect(fs, Head(es)))

\* a reducer that builds the store from the requests of the transaction alone
FoldFieldFromRequests(fs, c, es) == ApplyEffects(<<>>, es)

\* createFoldField.update(folds, tr)
FoldFieldUpdate(fs, c, es) == Strict(LAMBDA mapped : ApplyEffects(mapped, es), MapFolds(fs, c))

----------------------------------------------------------------------------
(* Auto-Expand-On-Edit Guard *)

\* the callback of folds.between with a test that lets touching ranges pass
EditOverlapsFold(c, f) == c.fromA < f.to /\ c.toA > f.from

\* the callback of folds.between inside tr.changes.iterChanges
EditTouchesFold(c, f) == c.fromA <= f.to /\ c.toA >= f.from

\* autoExpandFilter without the test of the change range: every entry is named
UnfoldEveryFold(fs, c) == [i \in DOMAIN fs |-> Effect(fs[i].from, fs[i].to, "false")]

\* autoExpandFilter: the effects appended to a transaction that changes the document
RECURSIVE UnfoldEffects(_, _)
UnfoldEffects(fs, c) ==
    IF fs = <<>> THEN <<>>
    ELSE (IF EditTouchesFold(c, Head(fs))
          THEN <<Effect(Head(fs).from, Head(fs).to, "false")>> ELSE <<>>)
         \o UnfoldEffects(Tail(fs), c)

autoExpandFilter(fs, c) == IF ~DocChanged(c) THEN <<>> ELSE UnfoldEffects(fs, c)

----------------------------------------------------------------------------
(* Default-State Resolver and the toggle widget (FoldWidget) *)

\* A front-matter value is what the metadata cache holds for the code-blocks
\* field after the host parsed the YAML: nothing, a string, a boolean, a number
\* or a list. text is the value's characters (for a string) or its YAML text.
FmValue(kind, text) == [kind |-> kind, text |-> text]
FmAbsent == FmValue("absent", <<>>)
FmString(text) == FmValue("string", text)

\* the letters the model's strings are written with, and their capitals
LowerCase == <<"a", "c", "d", "e", "l", "n", "o", "p", "s", "x">>
UpperCase == <<"A", "C", "D", "E", "L", "N", "O", "P", "S", "X">>

LowerChar(c) ==
    IF \E k \in DOMAIN UpperCase : UpperCase[k] = c
    THEN LowerCase[CHOOSE k \in DOMAIN UpperCase : UpperCase[k] = c]
    ELSE c

UpperChar(c) ==
    IF \E k \in DOMAIN LowerCase : LowerCase[k] = c
    THEN UpperCase[CHOOSE k \in DOMAIN LowerCase : LowerCase[k] = c]
    ELSE c

\* String.prototype.toLowerCase, character by character
toLowerCase(text) == [i \in DOMAIN text |-> LowerChar(text[i])]

WordCollapsed == <<"c", "o", "l", "l", "a", "p", "s", "e", "d">>
WordExpanded == <<"e", "x", "p", "a", "n", "d", "e", "d">>

\* JavaScript's !value for a front-matter value
Falsy(fm) ==
    \/ fm.kind = "absent"
    \/ fm.kind = "string" /\ fm.text = <<>>
    \/ fm.kind = "boolean" /\ fm.text = <<"f", "a", "l", "s", "e">>
    \/ fm.kind = "number" /\ fm.text = <<"0">>

\* FoldWidget.getFrontmatterCodeBlockState: "true", "false" or "null"; "throws"
\* when the value has no toLowerCase method (TypeError)
getFrontmatterCodeBlockState(fm) ==
    IF Falsy(fm) THEN "null"
    ELSE IF fm.kind # "string" THEN "throws"
    ELSE IF toLowerCase(fm.text) = WordCollapsed THEN "true"
    ELSE IF toLowerCase(fm.text) = WordExpanded THEN "false"
    ELSE "null"

\* the default state initializeCodeBlock resolves: "collapsed", "expanded", or
\* "throws" when the front-matter lookup raised
DefaultState(fm, dc) ==
    CASE getFrontmatterCodeBlockState(fm) = "throws" -> "throws"
      [] getFrontmatterCodeBlockState(fm) = "true"   -> "collapsed"
      [] getFrontmatterCodeBlockState(fm) = "false"  -> "expanded"
      [] OTHER -> IF dc THEN "collapsed" ELSE "expanded"

\* shouldCollapse of initializeCodeBlock
shouldCollapse(fm, dc) == DefaultState(fm, dc) = "collapsed"

\* the preview surface's getFrontmatterCodeBlockState (readView.ts)
readGetFrontmatterCodeBlockState(fm) ==
    IF Falsy(fm) THEN "null"
    ELSE IF fm.kind # "string" THEN "throws"
    ELSE IF toLowerCase(fm.text) = WordCollapsed THEN "true"
    ELSE IF toLowerCase(fm.text) = WordExpanded THEN "false"
    ELSE "null"

\* the default state setupCodeBlock resolves for a preview block
ReadDefaultState(fm, dc) ==
    CASE readGetFrontmatterCodeBlockState(fm) = "throws" -> "throws"
      [] readGetFrontmatterCodeBlockState(fm) = "true"   -> "collapsed"
      [] readGetFrontmatterCodeBlockState(fm) = "false"  -> "expanded"
      [] OTHER -> IF dc THEN "collapsed" ELSE "expanded"

\* FoldWidget.getBlockId: path-startPos-endPos
getBlockId(p, pos) == <<p, pos.startPos, pos.endPos>>

\* initializeCodeBlock without the early return on initializedBlocks.has(blockId)
ResolvesEveryRender(ids, p, pos) == TRUE

\* initializeCodeBlock: does the default-state resolution run for this widget
Resolves(ids, p, pos) == getBlockId(p, pos) \notin ids

\* initializeCodeBlock without the test of shouldCollapse
SchedulesWheneverUnfolded(ids, p, pos, fm, dc, fs) ==
    /\ Resolves(ids, p, pos)
    /\ ~HasFold(fs, pos.startPos, pos.endPos)

\* initializeCodeBlock deciding by the global default alone
SchedulesByGlobalDefault(ids, p, pos, fm, dc, fs) ==
    /\ Resolves(ids, p, pos)
    /\ dc
    /\ ~HasFold(fs, pos.startPos, pos.endPos)

\* initializeCodeBlock: does it call requestAnimationFrame
Schedules(ids, p, pos, fm, dc, fs) ==
    /\ Resolves(ids, p, pos)
    /\ shouldCollapse(fm, dc)
    /\ ~HasFold(fs, pos.startPos, pos.endPos)

\* the view draws a FoldWidget unless a replaced (folded) range covers its position
WidgetDrawn(fs, pos) ==
    ~\E i \in 1..Len(fs) : fs[i].from <= pos.startPos /\ pos.startPos < fs[i].to

\* isFolded as toDOM computes it
IsFolded(fs, pos) == HasFold(fs, pos.startPos, pos.endPos)

\* the effect dispatched by the button's onclick, isFolded as captured by toDOM
ClickEffect(fs, pos) ==
    Effect(pos.startPos, pos.endPos, IF IsFolded(fs, pos) THEN "false" ELSE "true")

----------------------------------------------------------------------------
(* Keyboard command *)

NoSpan == [startPos |-> -1, endPos |-> -1]

\* the backward search of toggleCodeBlockAtCursor over the fence lines before the
\* cursor line, nearest first
RECURSIVE SearchBackward(_, _, _, _)
SearchBackward(L, fence, cursorPos, cands) ==
    IF cands = {} THEN NoSpan
    ELSE LET i      == Max(cands)
             closes == {j \in fence : j > i}
         IN  IF closes # {} /\ cursorPos >= L[i].from /\ cursorPos <= L[Min(closes)].to
             THEN [startPos |-> L[i].from, endPos |-> L[Min(closes)].to]
             ELSE SearchBackward(L, fence, cursorPos, cands \ {i})

\* toggleCodeBlockAtCursor on the lines L with fence lines fence:
\* (codeBlockStart, codeBlockEnd), NoSpan when both stay -1
CursorSpanIn(L, fence, cursorPos) ==
    LET cl == LineNumberAt(L, cursorPos)
    IN  IF cl \in fence
        THEN LET closes == {j \in fence : j > cl}
             IN  IF closes # {}
                 THEN [startPos |-> L[cl].from, endPos |-> L[Min(closes)].to]
                 ELSE NoSpan
        ELSE SearchBackward(L, fence, cursorPos, {i \in fence : i < cl})

\* what the command finds for each caret position of a document (the lines and
\* the fence lines are computed once)
CursorSpanTable(d) ==
    CHOOSE t \in {[cursorPos \in 0..Len(d) |-> CursorSpanIn(L, fence, cursorPos)] :
                    <<L, fence>> \in {<<ls, FenceLineNumbers(d, ls)>> : ls \in {Lines(d)}}} : TRUE

CursorSpan(d, cursorPos) == CursorSpanTable(d)[cursorPos]

CursorSpans(d) == Range(CursorSpanTable(d))

----------------------------------------------------------------------------
(* Inputs of the model *)

Fence == <<BT, BT, BT>>

\* text, then one fenced block with one content line
DocOne == <<CX, NL>> \o Fence \o <<NL, CX, NL>> \o Fence

\* two adjacent fenced blocks without content
DocTwo == Fence \o <<NL>> \o Fence \o <<NL>> \o Fence \o <<NL>> \o Fence

Paths == {"a.md", "b.md"}

\* the text of each file of the vault when it is opened
FileDoc(p) == IF p = "a.md" THEN DocOne ELSE DocTwo

\* the code-blocks field of each file's front-matter: a.md says Collapsed, b.md
\* has no front-matter
FileFrontmatter(p) ==
    IF p = "a.md" THEN FmString(<<"C">> \o Tail(WordCollapsed)) ELSE FmAbsent

\* the edits a user can make: one-character insertions anywhere, deletions and
\* replacements of short ranges, and the deletion of a whole located region
Changes(d, ps) ==
    {[fromA |-> p, toA |-> p, ins |-> <<ch>>] : p \in 0..Len(d), ch \in {CX, NL}}
    \cup {[fromA |-> p, toA |-> p + n, ins |-> t] :
            p \in 0..(Len(d) - 1), n \in 1..MaxDelete, t \in {<<>>, <<CX>>}}
    \cup {[fromA |-> sp.startPos, toA |-> sp.endPos, ins |-> <<>>] : sp \in Range(ps)}

----------------------------------------------------------------------------
(* History kept for the statements below *)

Step(op, span, chg, effs, pre, resolved, scheduled) ==
    [op |-> op, span |-> span, chg |-> chg, effs |-> effs, pre |-> pre,
     resolved |-> resolved, scheduled |-> scheduled, docBefore |-> <<>>]

\* counts of default-state resolutions and of scheduled force-collapses per block id
Bump(cnt, resolved, scheduled) ==
    [id \in DOMAIN cnt \cup resolved |->
        LET old == IF id \in DOMAIN cnt THEN cnt[id] ELSE [resolved |-> 0, scheduled |-> 0]
        IN  [resolved  |-> old.resolved + (IF id \in resolved THEN 1 ELSE 0),
             scheduled |-> old.scheduled + (IF id \in scheduled THEN 1 ELSE 0)]]

\* where the opening fence of a tracked region goes under a change; -1 when the change covers it
RemapStart(s, c) ==
    IF c.toA <= s THEN s - (c.toA - c.fromA) + Len(c.ins)
    ELSE IF c.fromA > s THEN s
    ELSE -1

SpanStarts(ps) == {sp.startPos : sp \in Range(ps)}

SpanAt(ps, s) == CHOOSE sp \in Range(ps) : sp.startPos = s

\* regions whose default force-collapse was scheduled and has run
DefaultApplied(ps, p, cnt, pend) ==
    {sp.startPos : sp \in
       {x \in Range(ps) :
          /\ getBlockId(p, x) \in DOMAIN cnt
          /\ cnt[getBlockId(p, x)].scheduled >= 1
          /\ ~\E k \in DOMAIN pend : pend[k].from = x.startPos /\ pend[k].to = x.endPos}}

\* regions collapsed by default that a user action has just unfolded, minus the
\* regions folded now
TrackExpanded(tracked, ps, pre, post, byUser, applied) ==
    LET spans == Range(ps)
        newly == IF byUser
                 THEN {sp.startPos : sp \in {x \in spans : /\ x.startPos \in applied
                                                           /\ IsFolded(pre, x)
                                                           /\ ~IsFolded(post, x)}}
                 ELSE {}
    IN  {s \in (tracked \cap SpanStarts(ps)) \cup newly : ~IsFolded(post, SpanAt(ps, s))}

\* the folded state of every located region, as the toggle widgets report it,
\* and whether every scheduled request had been applied
FoldedStates(fs, ps, pend) ==
    [folded |-> [i \in DOMAIN ps |-> IsFolded(fs, ps[i])], settled |-> pend = <<>>]

NotLeft == [folded |-> <<>>, settled |-> FALSE]

NeverLeft == [p \in Paths |-> NotLeft]

----------------------------------------------------------------------------
(* The live-editing view *)

NotLocated == [done |-> FALSE, spans |-> <<>>]

\* FoldWidget.toDOM -> initializeCodeBlock for one widget; v carries the set of
\* initialized blocks and the queue of animation-frame callbacks through the pass
ToDOM(v, fs, p, fm, dc, pos) ==
    LET id  == getBlockId(p, pos)
        res == Resolves(v.ids, p, pos)
        sch == Schedules(v.ids, p, pos, fm, dc, fs)
    IN  [ids       |-> IF res THEN v.ids \cup {id} ELSE v.ids,
         pending   |-> IF sch THEN Append(v.pending, Effect(pos.startPos, pos.endPos, "true"))
                       ELSE v.pending,
         resolved  |-> IF res THEN v.resolved \cup {id} ELSE v.resolved,
         scheduled |-> IF sch THEN v.scheduled \cup {id} ELSE v.scheduled]

\* the view update that follows every transaction: buildDecorations makes new
\* FoldWidget instances, so every widget the view draws gets toDOM called again
RECURSIVE DrawWidgets(_, _, _, _, _, _)
DrawWidgets(v, ps, fs, p, fm, dc) ==
    IF ps = <<>> THEN v
    ELSE Strict(LAMBDA w : DrawWidgets(w, Tail(ps), fs, p, fm, dc),
                IF WidgetDrawn(fs, Head(ps)) THEN ToDOM(v, fs, p, fm, dc, Head(ps)) ELSE v)

View(ids, pend) == [ids |-> ids, pending |-> pend, resolved |-> {}, scheduled |-> {}]

\* view.dispatch of a transaction with change c and effects effs, the redraw included
Dispatch(op, span, c, effs, byUser) ==
    \E all \in {autoExpandFilter(folds, c) \o effs} :
    \E post \in {FoldFieldUpdate(folds, c, all)} :
    \E d2 \in {IF DocChanged(c) THEN ApplyChange(doc, c) ELSE doc} :
    \E ps2 \in {IF DocChanged(c) THEN codeBlockPositions(d2) ELSE positions} :
    \E v \in {DrawWidgets(View(initializedBlocks, pending), ps2, post, path,
                          frontmatter, defaultCollapsed)} :
        /\ doc' = d2
        /\ positions' = ps2
        /\ folds' = post
        /\ initializedBlocks' = v.ids
        /\ pending' = v.pending
        /\ initCount' = Bump(initCount, v.resolved, v.scheduled)
        /\ last' = [Step(op, span, c, all, folds, v.resolved, v.scheduled)
                      EXCEPT !.docBefore = IF DocChanged(c) THEN doc ELSE <<>>]
        /\ userExpanded' =
             TrackExpanded({RemapStart(s, c) : s \in userExpanded}, ps2,
                           IF DocChanged(c) THEN post ELSE folds, post, byUser,
                           DefaultApplied(positions, path, initCount, pending))

\* a harness that is not in use
LocIdle == locDoc = <<>> /\ locBegins = {} /\ locOut = NotLocated

NotResolved == [edit |-> "none", read |-> "none"]

ResIdle == resFm = FmAbsent /\ resDefault = FALSE /\ resOut = NotResolved

\* A settings value is a JSON value: an integer, a number with a fractional
\* part (val is its integer part), a string spelling the integer val, or null.
CfgValue(kind, val) == [kind |-> kind, val |-> val]

\* DEFAULT_SETTINGS.collapsedLines
DefaultCollapsedLines == CfgValue("integer", 0)

CfgIdle == collapsedLines = DefaultCollapsedLines /\ typed = <<>>

\* the preview before anything was processed
PreBlocks == 1..NumPreBlocks

Unprocessed == [hasCollapseButton |-> FALSE, buttons |-> 0, collapsed |-> FALSE,
                applied |-> 0, seen |-> FALSE, icon |-> "none"]

NoPreviewStep == [op |-> "none", blocks |-> {}, pre |-> [b \in PreBlocks |-> Unprocessed],
                  key |-> ""]

PreviewIdle ==
    preview = [b \in PreBlocks |-> Unprocessed] /\ pvLast = NoPreviewStep /\ records = <<>>

\* the editor when a harness or the preview runs without it
EditorIdleState ==
    /\ doc = <<>>
    /\ folds = <<>>
    /\ positions = <<>>
    /\ initializedBlocks = {}
    /\ pending = <<>>
    /\ last = Step("init", NoSpan, NoChange, <<>>, <<>>, {}, {})
    /\ initCount = <<>>
    /\ userExpanded = {}
    /\ nEdits = 0
    /\ nOpens = 0
    /\ left = NeverLeft

EditorIdle ==
    EditorIdleState /\ path = "a.md" /\ frontmatter = FmAbsent /\ defaultCollapsed = FALSE

Init ==
    /\ path \in Paths
    /\ doc = FileDoc(path)
    /\ frontmatter = FileFrontmatter(path)
    /\ defaultCollapsed \in BOOLEAN
    /\ folds = <<>>
    /\ positions = codeBlockPositions(doc)
    /\ LET v == DrawWidgets(View({}, <<>>), positions, folds, path, frontmatter, defaultCollapsed)
       IN  /\ initializedBlocks = v.ids
           /\ pending = v.pending
           /\ initCount = Bump(<<>>, v.resolved, v.scheduled)
           /\ last = Step("init", NoSpan, NoChange, <<>>, <<>>, v.resolved, v.scheduled)
    /\ userExpanded = {}
    /\ nEdits = 0
    /\ nOpens = 0
    /\ left = NeverLeft
    /\ LocIdle
    /\ ResIdle
    /\ PreviewIdle
    /\ CfgIdle

\* the view draws the toggle widget of a located region once more (scrolled back into view)
Render(pos) ==
    /\ pos \in Range(positions)
    /\ WidgetDrawn(folds, pos)
    /\ \E v \in {ToDOM(View(initializedBlocks, pending), folds, path, frontmatter,
                        defaultCollapsed, pos)} :
           /\ initializedBlocks' = v.ids
           /\ pending' = v.pending
           /\ initCount' = Bump(initCount, v.resolved, v.scheduled)
           /\ last' = Step("render", pos, NoChange, <<>>, folds, v.resolved, v.scheduled)
    /\ UNCHANGED <<doc, folds, positions, path, frontmatter, defaultCollapsed, userExpanded,
                   nEdits, nOpens>>
    /\ UNCHANGED <<harnessVars, previewVars, left>>

\* the user clicks the toggle widget of a located region
ClickToggle(pos) ==
    /\ pos \in Range(positions)
    /\ WidgetDrawn(folds, pos)
    /\ Dispatch("click", pos, NoChange, <<ClickEffect(folds, pos)>>, TRUE)
    /\ UNCHANGED <<path, frontmatter, defaultCollapsed, nEdits, nOpens>>
    /\ UNCHANGED <<harnessVars, previewVars, left>>

\* String.prototype.split on the line break: the texts of the lines
SplitLines(t) == [i \in DOMAIN Lines(t) |-> LineText(t, Lines(t)[i])]

\* Array.prototype.join with the line break
RECURSIVE JoinLines(_)
JoinLines(ls) ==
    IF ls = <<>> THEN <<>>
    ELSE IF Len(ls) = 1 THEN ls[1]
    ELSE ls[1] \o <<NL>> \o JoinLines(Tail(ls))

\* Array.prototype.slice(0, n) for an integer n: a negative n counts from the end
SliceFromStart(ls, n) ==
    IF n < 0 THEN SubSeq(ls, 1, Max({Len(ls) + n, 0})) ELSE SubSeq(ls, 1, Min({n, Len(ls)}))

\* toDOM of the folded widget of entry f in the document d with
\* settings.collapsedLines = n: the text of its code element
FoldedPreview(d, f, n) ==
    LET fullContent == SubSeq(d, f.capturedFrom + 1, Min({f.capturedTo, Len(d)}))
        allLines    == SplitLines(fullContent)
        codeLines   == Tail(allLines)
        kept        == IF codeLines # <<>> /\ StartsWithFence(codeLines[Len(codeLines)])
                       THEN SubSeq(codeLines, 1, Len(codeLines) - 1)
                       ELSE codeLines
    IN  JoinLines(SliceFromStart(kept, n))

\* the user clicks the expand button of the folded widget of entry i
ClickExpand(i) ==
    /\ i \in 1..Len(folds)
    /\ Dispatch("expand", [startPos |-> folds[i].from, endPos |-> folds[i].to], NoChange,
                <<Effect(folds[i].capturedFrom, folds[i].capturedTo, "false")>>, TRUE)
    /\ UNCHANGED <<path, frontmatter, defaultCollapsed, nEdits, nOpens>>
    /\ UNCHANGED <<harnessVars, previewVars, left>>

\* the keyboard command with the caret somewhere in the span sp that
\* toggleCodeBlockAtCursor finds for it (NoSpan: it finds none and dispatches nothing)
KeyToggle(sp) ==
    /\ IF sp = NoSpan
       THEN /\ last' = Step("key", NoSpan, NoChange, <<>>, folds, {}, {})
            /\ UNCHANGED <<doc, folds, positions, initializedBlocks, pending, initCount,
                           userExpanded>>
       ELSE Dispatch("key", sp, NoChange, <<Effect(sp.startPos, sp.endPos, "undefined")>>, TRUE)
    /\ UNCHANGED <<path, frontmatter, defaultCollapsed, nEdits, nOpens>>
    /\ UNCHANGED <<harnessVars, previewVars, left>>

\* the callbacks queued by requestAnimationFrame run in order, one dispatch each;
\* what the redraws after these dispatches queue waits for the next frame
RECURSIVE RunCallbacks(_, _, _)
RunCallbacks(fs, v, es) ==
    IF es = <<>> THEN [folds |-> fs, view |-> v]
    ELSE Strict(LAMBDA post :
                  Strict(LAMBDA w : RunCallbacks(post, w, Tail(es)),
                         DrawWidgets(v, positions, post, path, frontmatter, defaultCollapsed)),
                FoldFieldUpdate(fs, NoChange, <<Head(es)>>))

RunFrame ==
    /\ pending # <<>>
    /\ \E r \in {RunCallbacks(folds, View(initializedBlocks, <<>>), pending)} :
           /\ folds' = r.folds
           /\ initializedBlocks' = r.view.ids
           /\ pending' = r.view.pending
           /\ initCount' = Bump(initCount, r.view.resolved, r.view.scheduled)
           /\ last' = Step("raf", NoSpan, NoChange, pending, folds,
                           r.view.resolved, r.view.scheduled)
           /\ userExpanded' = TrackExpanded(userExpanded, positions, folds, r.folds, FALSE, {})
    /\ UNCHANGED <<doc, positions, path, frontmatter, defaultCollapsed, nEdits, nOpens>>
    /\ UNCHANGED <<harnessVars, previewVars, left>>

\* the user edits the document: the transaction filter runs, then the reducer
Edit(c) ==
    /\ nEdits < MaxEdits
    /\ DocChanged(c)
    /\ Dispatch("edit", NoSpan, c, <<>>, FALSE)
    /\ nEdits' = nEdits + 1
    /\ UNCHANGED <<path, frontmatter, defaultCollapsed, nOpens>>
    /\ UNCHANGED <<harnessVars, previewVars, left>>

\* a file-open handler that leaves the set as it is
keepInitializedBlocks(ids) == ids

\* FoldWidget.clearInitializedBlocks: initializedBlocks.clear()
clearInitializedBlocks(ids) == {}

\* the workspace's file-open event: the plugin clears the initialized blocks; the
\* host shows file p in the view with a fresh editor state, and the view draws it
OpenFile(p) ==
    /\ p \in Paths
    /\ path' = p
    /\ doc' = FileDoc(p)
    /\ positions' = codeBlockPositions(FileDoc(p))
    /\ frontmatter' = FileFrontmatter(p)
    /\ folds' = <<>>
    /\ \E v \in {DrawWidgets(View(clearInitializedBlocks(initializedBlocks), pending),
                              codeBlockPositions(FileDoc(p)), <<>>, p,
                              FileFrontmatter(p), defaultCollapsed)} :
           /\ initializedBlocks' = v.ids
           /\ pending' = v.pending
           /\ initCount' = Bump(<<>>, v.resolved, v.scheduled)
           /\ last' = Step("open", NoSpan, NoChange, <<>>, <<>>, v.resolved, v.scheduled)
    /\ userExpanded' = {}
    /\ nOpens' = nOpens + 1
    /\ UNCHANGED <<defaultCollapsed, nEdits>>
    /\ UNCHANGED <<harnessVars, previewVars>>

FileOpen(p) ==
    /\ nOpens < MaxOpens
    /\ OpenFile(p)
    /\ UNCHANGED left

\* the user switches to another note: the same file-open event, with the folded
\* states of the note that is left written down
SwitchNote(p) ==
    /\ nOpens < MaxSwitches
    /\ p # path
    /\ OpenFile(p)
    /\ left' = [left EXCEPT ![path] = FoldedStates(folds, positions, pending)]

Next ==
    \/ \E pos \in Range(positions) : Render(pos)
    \/ \E pos \in Range(positions) : ClickToggle(pos)
    \/ \E i \in 1..Len(folds) : ClickExpand(i)
    \/ \E sp \in CursorSpans(doc) : KeyToggle(sp)
    \/ RunFrame
    \/ \E c \in (IF nEdits < MaxEdits THEN Changes(doc, positions) ELSE {}) : Edit(c)
    \/ \E p \in (IF nOpens < MaxOpens THEN Paths ELSE {}) : FileOpen(p)

Spec == Init /\ [][Next]_vars

\* The steps that can happen while one document stays open and is not edited.
\* requestAnimationFrame runs its callbacks at the next frame, so a frame with
\* callbacks waiting cannot be postponed for ever: weak fairness of RunFrame.
NextLive ==
    \/ \E pos \in Range(positions) : Render(pos)
    \/ \E pos \in Range(positions) : ClickToggle(pos)
    \/ \E i \in 1..Len(folds) : ClickExpand(i)
    \/ \E sp \in CursorSpans(doc) : KeyToggle(sp)
    \/ RunFrame

SpecLive == Init /\ [][NextLive]_vars /\ WF_vars(RunFrame)

\* The user works in a note and switches between the notes, without editing.
NextSwitch ==
    \/ \E pos \in Range(positions) : Render(pos)
    \/ \E pos \in Range(positions) : ClickToggle(pos)
    \/ \E i \in 1..Len(folds) : ClickExpand(i)
    \/ \E sp \in CursorSpans(doc) : KeyToggle(sp)
    \/ RunFrame
    \/ \E p \in (IF nOpens < MaxSwitches THEN Paths \ {path} ELSE {}) : SwitchNote(p)

SpecSwitch == Init /\ [][NextSwitch]_vars

\* the user moves the caret: a transaction with a new selection, without a
\* document change and without a toggle request; the view draws the widgets again
MoveCaret ==
    /\ Dispatch("select", NoSpan, NoChange, <<>>, FALSE)
    /\ UNCHANGED <<path, frontmatter, defaultCollapsed, nEdits, nOpens>>
    /\ UNCHANGED <<harnessVars, previewVars, left>>

\* The steps that can happen while one document stays open and is not edited,
\* caret movements included.
NextCaret ==
    \/ \E pos \in Range(positions) : Render(pos)
    \/ \E pos \in Range(positions) : ClickToggle(pos)
    \/ \E i \in 1..Len(folds) : ClickExpand(i)
    \/ \E sp \in CursorSpans(doc) : KeyToggle(sp)
    \/ RunFrame
    \/ MoveCaret

SpecCaret == Init /\ [][NextCaret]_vars

\* The user opens file p in another pane: the file-open handler clears the
\* static set, the other pane becomes the active view, and its first draw puts
\* the ids of its own regions into the set. This view keeps its document, its
\* store and its widgets, and nothing is dispatched to it.
OtherPaneOpen(p) ==
    /\ nOpens < MaxOpens
    /\ p \in Paths
    /\ path' = p
    /\ frontmatter' = FileFrontmatter(p)
    /\ initializedBlocks' = clearInitializedBlocks(initializedBlocks)
                               \cup {getBlockId(p, sp) : sp \in Range(codeBlockPositions(FileDoc(p)))}
    /\ last' = Step("paneopen", NoSpan, NoChange, <<>>, folds, {}, {})
    /\ nOpens' = nOpens + 1
    /\ UNCHANGED <<doc, folds, positions, defaultCollapsed, pending, initCount, userExpanded,
                   nEdits, left>>
    /\ UNCHANGED <<harnessVars, previewVars>>

\* The steps of one view whose document stays open and is not edited, while
\* the user opens files in another pane.
NextPanes ==
    \/ \E pos \in Range(positions) : Render(pos)
    \/ \E pos \in Range(positions) : ClickToggle(pos)
    \/ \E i \in 1..Len(folds) : ClickExpand(i)
    \/ \E sp \in CursorSpans(doc) : KeyToggle(sp)
    \/ RunFrame
    \/ \E p \in (IF nOpens < MaxOpens THEN Paths ELSE {}) : OtherPaneOpen(p)

SpecPanes == Init /\ [][NextPanes]_vars

----------------------------------------------------------------------------
(* The Region Locator on its own: any document of a few lines, any marking of *)
(* its lines by the syntax layer                                              *)

LocLineKinds == {Fence, <<SP>> \o Fence, Fence \o <<CX>>, <<CX>>, <<>>, <<BT, BT>>}

RECURSIVE DocsOfLines(_)
DocsOfLines(n) ==
    IF n = 1 THEN LocLineKinds
    ELSE {d \o <<NL>> \o l : d \in DocsOfLines(n - 1), l \in LocLineKinds}

LocDocs == UNION {DocsOfLines(n) : n \in 1..MaxLocLines}

LineStarts(d) == {Lines(d)[i].from : i \in DOMAIN Lines(d)}

InitLocator ==
    /\ locDoc \in LocDocs
    /\ locBegins \in SUBSET LineStarts(locDoc)
    /\ locOut = NotLocated
    /\ EditorIdle
    /\ ResIdle
    /\ PreviewIdle
    /\ CfgIdle

\* the locator runs on the state
Locate ==
    /\ ~locOut.done
    /\ locOut' = [done |-> TRUE, spans |-> findCodeBlockPositions(locDoc, locBegins)]
    /\ UNCHANGED <<locDoc, locBegins>>
    /\ UNCHANGED <<editorVars, resVars, previewVars, cfgVars>>

NextLocator == Locate

SpecLocator == InitLocator /\ [][NextLocator]_vars

----------------------------------------------------------------------------
(* The Default-State Resolver on its own: any front-matter value, either    *)
(* global default, resolved once by each surface                            *)

\* every spelling of a word in capitals and small letters
RECURSIVE CaseVariants(_)
CaseVariants(w) ==
    IF w = <<>> THEN {<<>>}
    ELSE {<<c>> \o r : c \in {Head(w), UpperChar(Head(w))}, r \in CaseVariants(Tail(w))}

\* strings that are neither word: empty, truncated, padded, another word
OtherTexts ==
    {<<>>, SubSeq(WordCollapsed, 1, 8), WordCollapsed \o <<SP>>, <<SP>> \o WordExpanded,
     <<"f", "o", "l", "d", "e", "d">>, <<"C", "L", "O", "S", "E", "D">>, <<"1">>}

FmValues ==
    {FmAbsent}
    \cup {FmString(t) : t \in CaseVariants(WordCollapsed) \cup CaseVariants(WordExpanded)
                                 \cup OtherTexts}
    \cup {FmValue("boolean", t) : t \in {<<"t", "r", "u", "e">>, <<"f", "a", "l", "s", "e">>}}
    \cup {FmValue("number", t) : t \in {<<"0">>, <<"1">>}}
    \cup {FmValue("list", <<>>)}

InitResolver ==
    /\ resFm \in FmValues
    /\ resDefault \in BOOLEAN
    /\ resOut = NotResolved
    /\ EditorIdle
    /\ LocIdle
    /\ PreviewIdle
    /\ CfgIdle

\* a FoldWidget of the live-editing surface resolves its default state
ResolveEdit ==
    /\ resOut.edit = "none"
    /\ resOut' = [resOut EXCEPT !.edit = DefaultState(resFm, resDefault)]
    /\ UNCHANGED <<resFm, resDefault>>
    /\ UNCHANGED <<editorVars, locVars, previewVars, cfgVars>>

\* setupCodeBlock of the preview surface resolves a block's default state
ResolveRead ==
    /\ resOut.read = "none"
    /\ resOut' = [resOut EXCEPT !.read = ReadDefaultState(resFm, resDefault)]
    /\ UNCHANGED <<resFm, resDefault>>
    /\ UNCHANGED <<editorVars, locVars, previewVars, cfgVars>>

NextResolver == ResolveEdit \/ ResolveRead

SpecResolver == InitResolver /\ [][NextResolver]_vars

----------------------------------------------------------------------------
(* The preview surface (src/src/readView.ts): the pre elements of the rendered *)
(* document. hasCollapseButton is the class has-collapse-button, collapsed the *)
(* class collapsed, buttons the number of toggle buttons inserted into the     *)
(* element; applied counts the default collapses and seen records that some    *)
(* call was made on a subtree holding the element (history).                   *)

\* querySelectorAll without the :not(.has-collapse-button) part of the selector
SelectAll(pv, S) == S

\* element.querySelectorAll('pre:not(.has-collapse-button)') on a subtree that
\* holds the pre elements S
SelectNew(pv, S) == {b \in S : ~pv[b].hasCollapseButton}

\* setupCodeBlock(pre): the button is inserted, then the default state is
\* resolved and applied; a resolution that throws leaves the button behind
setupCodeBlock(pv, b, fm, dc) ==
    IF ReadDefaultState(fm, dc) = "collapsed"
    THEN [pv EXCEPT ![b].buttons = @ + 1, ![b].collapsed = TRUE, ![b].applied = @ + 1,
                    ![b].icon = "expandIcon"]
    ELSE [pv EXCEPT ![b].buttons = @ + 1, ![b].icon = "collapseIcon"]

\* the forEach of processNewCodeBlocks over the selected elements in document
\* order; an exception in setupCodeBlock ends the loop
RECURSIVE ProcessSelected(_, _, _, _)
ProcessSelected(pv, sel, fm, dc) ==
    IF sel = {} THEN pv
    ELSE LET b == Min(sel)
             q == setupCodeBlock([pv EXCEPT ![b].hasCollapseButton = TRUE], b, fm, dc)
         IN  IF ReadDefaultState(fm, dc) = "throws" THEN q
             ELSE ProcessSelected(q, sel \ {b}, fm, dc)

processNewCodeBlocks(pv, S, fm, dc) == ProcessSelected(pv, SelectNew(pv, S), fm, dc)

\* toggleHandler of a block's button: pre.classList.toggle('collapsed'), then
\* the button's text is set from the class
toggleHandler(pv, b) ==
    [pv EXCEPT ![b].collapsed = ~@,
               ![b].icon = IF ~pv[b].collapsed THEN "expandIcon" ELSE "collapseIcon"]

\* a keydown listener that runs the handler for every key
keydownAnyKey(pv, b, key) == toggleHandler(pv, b)

\* the keydown listener of the button: e.key === 'Enter' || e.key === ' '
keydownListener(pv, b, key) == IF key = "Enter" \/ key = " " THEN toggleHandler(pv, b) ELSE pv

\* a click handler that also clears the fold store of the editor
PreviewClickClearsFolds(fs, pv, b) == [folds |-> <<>>, preview |-> toggleHandler(pv, b)]

\* what a click on the button of block b does to the two surfaces: the handler
\* touches the element's classes and asks the workspace to save its layout
PreviewClick(fs, pv, b) == [folds |-> fs, preview |-> toggleHandler(pv, b)]

\* the markdown post-processor, or the mutation observer, calls
\* processNewCodeBlocks on an element whose subtree holds the pre elements S
ProcessNewCodeBlocks(S) ==
    /\ S # {}
    /\ \E r \in {processNewCodeBlocks(preview, S, frontmatter, defaultCollapsed)} :
           preview' = [b \in PreBlocks |-> IF b \in S THEN [r[b] EXCEPT !.seen = TRUE] ELSE r[b]]
    /\ pvLast' = [op |-> "process", blocks |-> S, pre |-> preview, key |-> ""]
    /\ UNCHANGED <<editorVars, harnessVars, records>>

\* the user clicks the toggle button of block b, or presses Enter or Space on it
PreviewToggle(b) ==
    /\ preview[b].buttons >= 1
    /\ \E r \in {PreviewClick(folds, preview, b)} :
           /\ folds' = r.folds
           /\ preview' = r.preview
    /\ pvLast' = [op |-> "toggle", blocks |-> {b}, pre |-> preview, key |-> ""]
    /\ UNCHANGED <<doc, positions, path, frontmatter, defaultCollapsed, initializedBlocks,
                   pending, last, initCount, userExpanded, nEdits, nOpens, left>>
    /\ UNCHANGED <<harnessVars, records>>

\* both surfaces show the same file: the steps of the editor while the file
\* stays open, and the steps of the preview
NextSurfaces ==
    \/ \E pos \in Range(positions) : Render(pos)
    \/ \E pos \in Range(positions) : ClickToggle(pos)
    \/ \E i \in 1..Len(folds) : ClickExpand(i)
    \/ \E sp \in CursorSpans(doc) : KeyToggle(sp)
    \/ RunFrame
    \/ \E c \in (IF nEdits < MaxEdits THEN Changes(doc, positions) ELSE {}) : Edit(c)
    \/ \E S \in SUBSET PreBlocks : ProcessNewCodeBlocks(S)
    \/ \E b \in PreBlocks : PreviewToggle(b)

\* the file with a front-matter override is open on both surfaces
InitSurfaces == Init /\ path = "a.md"

SpecSurfaces == InitSurfaces /\ [][NextSurfaces]_vars

\* the preview on its own: it shows either file of the vault, the editor is closed
InitPreview ==
    /\ path \in Paths
    /\ frontmatter = FileFrontmatter(path)
    /\ defaultCollapsed \in BOOLEAN
    /\ EditorIdleState
    /\ PreviewIdle
    /\ CfgIdle
    /\ LocIdle
    /\ ResIdle

\* the keys a user presses while the button has the focus
Keys == {"Enter", " ", "Tab", "a"}

\* the user presses a key on the focused toggle button of block b
PreviewKeydown(b, key) ==
    /\ preview[b].buttons >= 1
    /\ preview' = keydownListener(preview, b, key)
    /\ pvLast' = [op |-> "keydown", blocks |-> {b}, pre |-> preview, key |-> key]
    /\ UNCHANGED <<editorVars, harnessVars, records>>

NextPreview ==
    \/ \E S \in SUBSET PreBlocks : ProcessNewCodeBlocks(S)
    \/ \E b \in PreBlocks : PreviewToggle(b)
    \/ \E b \in PreBlocks : \E key \in Keys : PreviewKeydown(b, key)

SpecPreview == InitPreview /\ [][NextPreview]_vars

\* The content observer (childList, subtree) and the mutations it is told of.
\* A record stands for its target by the pre elements querySelectorAll finds
\* below the target: a pre element holds no pre element, so the record of a
\* button inserted into a pre, or of a button's text being set, stands for {}.

\* a processing that changes the subtree of its target on every call
RecordsOnEveryCall(T, pv, q) == <<T>>

\* the records one call of processNewCodeBlocks on a target with the pre
\* elements T leaves behind (pv before, q after): pre.insertBefore(toggleButton)
\* for every block set up, toggleButton.textContent for every block collapsed
ButtonRecords(T, pv, q) ==
    [k \in 1..(Cardinality({b \in T : q[b].buttons > pv[b].buttons})
                + Cardinality({b \in T : q[b].applied > pv[b].applied})) |-> {}]

\* the MutationObserver callback: mutations.forEach, processNewCodeBlocks(target)
RECURSIVE ObserveAll(_, _, _, _)
ObserveAll(pv, recs, fm, dc) ==
    IF recs = <<>> THEN [preview |-> pv, records |-> <<>>]
    ELSE LET q    == processNewCodeBlocks(pv, Head(recs), fm, dc)
             rest == ObserveAll(q, Tail(recs), fm, dc)
         IN  [preview |-> rest.preview,
              records |-> ButtonRecords(Head(recs), pv, q) \o rest.records]

\* the pre elements of the document that are in the DOM
Present == {b \in PreBlocks : preview[b].seen}

\* registerMarkdownPostProcessor: the host hands over a new element holding the
\* pre elements S; they are processed, then the element is put under observation
PostProcess(S) ==
    /\ S # {}
    /\ S \cap Present = {}
    /\ \E r \in {processNewCodeBlocks(preview, S, frontmatter, defaultCollapsed)} :
           preview' = [b \in PreBlocks |-> IF b \in S THEN [r[b] EXCEPT !.seen = TRUE] ELSE r[b]]
    /\ pvLast' = [op |-> "postprocess", blocks |-> S, pre |-> preview, key |-> ""]
    /\ UNCHANGED <<editorVars, harnessVars, records>>

\* the host inserts the pre elements S below a node of an observed element;
\* the node already holds the pre elements X
DomInsert(S, X) ==
    /\ Present # {}
    /\ S # {}
    /\ S \cap Present = {}
    /\ X \subseteq Present
    /\ preview' = [b \in PreBlocks |-> IF b \in S THEN [preview[b] EXCEPT !.seen = TRUE]
                                       ELSE preview[b]]
    /\ records' = Append(records, S \cup X)
    /\ pvLast' = [op |-> "insert", blocks |-> S, pre |-> preview, key |-> ""]
    /\ UNCHANGED <<editorVars, harnessVars>>

\* the observer's callback runs with the records queued so far
ObserverCallback ==
    /\ records # <<>>
    /\ \E r \in {ObserveAll(preview, records, frontmatter, defaultCollapsed)} :
           /\ preview' = r.preview
           /\ records' = r.records
    /\ pvLast' = [op |-> "observer", blocks |-> UNION Range(records), pre |-> preview,
                  key |-> ""]
    /\ UNCHANGED <<editorVars, harnessVars>>

\* a click on the button of an observed block: the handler sets the button's text
ObservedToggle(b) ==
    /\ preview[b].buttons >= 1
    /\ preview' = toggleHandler(preview, b)
    /\ records' = Append(records, {})
    /\ pvLast' = [op |-> "toggle", blocks |-> {b}, pre |-> preview, key |-> ""]
    /\ UNCHANGED <<editorVars, harnessVars>>

\* at most MaxRecords records wait for one callback
NextObserver ==
    \/ \E S \in SUBSET PreBlocks : PostProcess(S)
    \/ \E S \in SUBSET PreBlocks : \E X \in SUBSET PreBlocks : DomInsert(S, X)
    \/ ObserverCallback
    \/ \E b \in (IF Len(records) < MaxRecords THEN PreBlocks ELSE {}) : ObservedToggle(b)

\* A MutationObserver callback is a microtask: it runs when the task that made
\* the mutations ends, so it cannot be postponed for ever: weak fairness.
SpecObserver == InitPreview /\ [][NextObserver]_vars /\ WF_vars(ObserverCallback)

----------------------------------------------------------------------------
(* The configuration boundary (main.ts): settings.collapsedLines as it is     *)
(* loaded from the persisted payload and as the settings panel sets it        *)

DigitChars == <<"0", "1", "2">>

IsDigit(c) == \E k \in DOMAIN DigitChars : DigitChars[k] = c

DigitValue(c) == (CHOOSE k \in DOMAIN DigitChars : DigitChars[k] = c) - 1

\* the longest prefix of t made of digits
RECURSIVE DigitPrefix(_)
DigitPrefix(t) ==
    IF t # <<>> /\ IsDigit(Head(t)) THEN <<Head(t)>> \o DigitPrefix(Tail(t)) ELSE <<>>

\* the number a sequence of digits spells in base ten
RECURSIVE DecimalValue(_)
DecimalValue(ds) ==
    IF ds = <<>> THEN 0
    ELSE 10 * DecimalValue(SubSeq(ds, 1, Len(ds) - 1)) + DigitValue(ds[Len(ds)])

NaN == CfgValue("nan", 0)

\* parseInt(value, 10): leading blanks are skipped, one sign is read, then the
\* digits up to the first other character; NaN when there is no digit
parseInt(value) ==
    LET t      == TrimStart(value)
        signed == t # <<>> /\ Head(t) \in {"-", "+"}
        digits == DigitPrefix(IF signed THEN Tail(t) ELSE t)
    IN  IF digits = <<>> THEN NaN
        ELSE IF signed /\ Head(t) = "-" THEN CfgValue("integer", 0 - DecimalValue(digits))
        ELSE CfgValue("integer", DecimalValue(digits))

\* the onChange handler of the collapsed-lines field
onChangeCollapsedLines(value) ==
    LET numericValue == parseInt(value)
    IN  IF numericValue = NaN \/ numericValue.val < 0 THEN CfgValue("integer", 0)
        ELSE numericValue

\* a persisted payload (data.json): none, one without the field, or one holding
\* some JSON value in the field
NoPayload == [present |-> FALSE, value |-> CfgValue("null", 0)]

Payloads ==
    {NoPayload}
    \cup {[present |-> TRUE, value |-> CfgValue(k, n)] :
            k \in {"integer", "fraction", "string"}, n \in -2..MaxCollapsedLines}
    \cup {[present |-> TRUE, value |-> CfgValue("null", 0)]}

\* loadSettings: the defaults overlaid with the loaded data; only the two icons
\* are sanitized
loadSettings(payload) == IF payload.present THEN payload.value ELSE DefaultCollapsedLines

\* the texts a user can type into the field
TypedChars == {"0", "1", "2", "-", SP, CX}

RECURSIVE TextsOfLength(_)
TextsOfLength(n) ==
    IF n = 0 THEN {<<>>}
    ELSE {t \o <<c>> : t \in TextsOfLength(n - 1), c \in TypedChars}

TypedTexts == UNION {TextsOfLength(n) : n \in 0..MaxTyped}

InitSettings ==
    /\ \E payload \in Payloads : collapsedLines = loadSettings(payload)
    /\ typed = <<>>
    /\ EditorIdle
    /\ LocIdle
    /\ ResIdle
    /\ PreviewIdle

\* the user changes the text of the collapsed-lines field to value
TypeCollapsedLines(value) ==
    /\ collapsedLines' = onChangeCollapsedLines(value)
    /\ typed' = value
    /\ UNCHANGED <<editorVars, locVars, resVars, previewVars>>

NextSettings == \E value \in TypedTexts : TypeCollapsedLines(value)

SpecSettings == InitSettings /\ [][NextSettings]_vars

----------------------------------------------------------------------------
(* Vocabulary of the statements *)

\* the bounds of the entries of a fold store, in store order
Ranges(fs) == [i \in DOMAIN fs |-> <<fs[i].from, fs[i].to>>]

\* the entries of fs whose bounds are exactly (from, to)
ExactEntries(fs, from, to) == {i \in DOMAIN fs : fs[i].from = from /\ fs[i].to = to}

HasExact(fs, from, to) == ExactEntries(fs, from, to) # {}

\* every span a request can name in document d
Requests(d) == {r \in (0..Len(d)) \X (0..Len(d)) : r[1] < r[2]}

\* the last step was one transaction without a document change carrying one request
OneRequestStep == last.op \in {"click", "expand", "key", "raf"} /\ Len(last.effs) = 1

\* some entry of fs overlaps or touches [from, to]
Overlapped(fs, from, to) == \E i \in DOMAIN fs : fs[i].from <= to /\ from <= fs[i].to

\* post is pre with one more entry, at exactly (from, to)
InsertedAt(pre, post, from, to) ==
    /\ Len(post) = Len(pre) + 1
    /\ \E j \in DOMAIN post :
          /\ post[j].from = from /\ post[j].to = to
          /\ pre = SubSeq(post, 1, j - 1) \o SubSeq(post, j + 1, Len(post))

\* post is pre without its entries at exactly (from, to)
RemovedAt(pre, post, from, to) ==
    post = SelectSeq(pre, LAMBDA f : ~(f.from = from /\ f.to = to))

\* the entries with bounds other than (from, to) are the same in pre and in post
OthersKept(pre, post, from, to) ==
    SelectSeq(pre, LAMBDA f : f.from # from \/ f.to # to)
      = SelectSeq(post, LAMBDA f : f.from # from \/ f.to # to)

\* two spans share a character
SpansOverlap(a, b) == a.startPos < b.endPos /\ b.startPos < a.endPos

PairwiseDisjoint(ps) ==
    \A i \in DOMAIN ps : \A j \in DOMAIN ps : i # j => ~SpansOverlap(ps[i], ps[j])

AscendingByStart(ps) ==
    \A i \in DOMAIN ps : \A j \in DOMAIN ps : i < j => ps[i].startPos <= ps[j].startPos

\* the syntax layer does not mark the line that closes a marked fence: the first
\* line starting with the fence marker after a marked fence line is not marked
ClosersUnmarked(d, begins) ==
    LET L     == Lines(d)
        fence == FenceLineNumbers(d, L)
    IN  \A i \in fence :
            L[i].from \in begins =>
                \A j \in fence :
                    (j > i /\ \A k \in fence : k > i => j <= k) => L[j].from \notin begins

----------------------------------------------------------------------------
(* C1 *)

\* C1 (edit-safety): after the transaction of a document edit has been applied,
\* every entry that was folded before the edit and whose range the edit overlapped
\* or touched is gone from the store: no entry sits on the range it was mapped to.
C1_EditSafety ==
    last.op = "edit" =>
        \A i \in DOMAIN last.pre :
            EditTouchesFold(last.chg, last.pre[i]) =>
                ~HasExact(folds, MapPos(last.pre[i].from, last.chg),
                                 MapPos(last.pre[i].to, last.chg))

----------------------------------------------------------------------------
(* C2 *)

\* C2 (default-once): between two file-open events, for every block id (path,
\* startOffset, endOffset) the default-state resolution has run at most once and
\* the force-collapse has been scheduled at most once, whatever number of times
\* the affordance was rendered.
C2_DefaultOnce ==
    \A id \in DOMAIN initCount :
        initCount[id].resolved <= 1 /\ initCount[id].scheduled <= 1

\* the affordance of a block whose force-collapse was scheduled has just been
\* rendered once more, and nothing was resolved or scheduled by that render
C2_Witness ==
    /\ last.op = "render"
    /\ last.resolved = {}
    /\ getBlockId(path, last.span) \in DOMAIN initCount
    /\ initCount[getBlockId(path, last.span)].scheduled = 1

----------------------------------------------------------------------------
(* C3 *)

\* C3 (manual toggle is never overwritten): no step schedules the default
\* force-collapse for a region that the user has expanded after it was
\* collapsed by default and that has stayed unfolded since.
C3_ManualToggleKept == \A id \in last.scheduled : id[2] \notin userExpanded

----------------------------------------------------------------------------
(* C4 *)

\* C4 (idempotence of forced requests): for every span, a force-collapse naming a
\* span that has an entry and a force-expand naming a span that has no entry
\* return the store as it was; and a transaction that carried one such request
\* left the store as it was.
C4_ForcedIdempotent ==
    /\ \A r \in Requests(doc) :
          /\ HasExact(folds, r[1], r[2])
                => ApplyEffect(folds, Effect(r[1], r[2], "true")) = folds
          /\ ~HasExact(folds, r[1], r[2])
                => ApplyEffect(folds, Effect(r[1], r[2], "false")) = folds
    /\ OneRequestStep =>
          LET e == last.effs[1]
          IN  \/ e.defaultState = "true" /\ HasExact(last.pre, e.from, e.to)
              \/ e.defaultState = "false" /\ ~HasExact(last.pre, e.from, e.to)
              => folds = last.pre

\* a frame has just run one scheduled force-collapse for a span that the user
\* had folded in the meantime
C4_Witness ==
    /\ last.op = "raf"
    /\ Len(last.effs) = 1
    /\ last.effs[1].defaultState = "true"
    /\ HasExact(last.pre, last.effs[1].from, last.effs[1].to)
    /\ folds = last.pre

----------------------------------------------------------------------------
(* C5 *)

\* C5 (toggle round-trip): for every span, two toggle requests with these
\* offsets, applied one after the other (in one transaction or in two), give
\* back the store they started from: the same entries at the same bounds.
C5_ToggleRoundTrip ==
    \A r \in Requests(doc) :
        LET t == Effect(r[1], r[2], "undefined")
        IN  Ranges(ApplyEffect(ApplyEffect(folds, t), t)) = Ranges(folds)

----------------------------------------------------------------------------
(* C6 *)

\* C6 (span disjointness): for every document and every marking of its lines by
\* the syntax layer, the spans findCodeBlockPositions returns are pairwise
\* non-overlapping and ascending by start offset.
C6_SpansDisjoint ==
    locOut.done => PairwiseDisjoint(locOut.spans) /\ AscendingByStart(locOut.spans)

\* C6, amended: the spans are ascending by start offset for every marking; they
\* are pairwise non-overlapping for every marking that does not mark the line
\* closing a marked fence.
C6_SpansDisjointUnmarkedClosers ==
    locOut.done =>
        /\ AscendingByStart(locOut.spans)
        /\ ClosersUnmarked(locDoc, locBegins) => PairwiseDisjoint(locOut.spans)

\* the locator has returned two spans for a marking that leaves closers unmarked
C6_Witness ==
    /\ locOut.done
    /\ ClosersUnmarked(locDoc, locBegins)
    /\ Len(locOut.spans) >= 2

----------------------------------------------------------------------------
(* C7 *)

\* C7 (exact-offset keying): a transaction carrying one toggle or force-collapse
\* request whose (from, to) equals the bounds of no entry leaves the store with
\* one more entry, at exactly (from, to).
C7_ExactKeying ==
    OneRequestStep =>
        LET e == last.effs[1]
        IN  e.defaultState \in {"undefined", "true"} /\ ~HasExact(last.pre, e.from, e.to)
              => InsertedAt(last.pre, folds, e.from, e.to)

\* C7, amended: a toggle or force-collapse request whose (from, to) equals the
\* bounds of no entry inserts an entry at exactly (from, to) when no entry
\* overlaps or touches [from, to], and leaves the store unchanged when one does;
\* for every span on every reachable store, and for the transactions taken.
C7_OverlapKeying ==
    /\ \A r \in Requests(doc) : \A ds \in {"undefined", "true"} :
          ~HasExact(folds, r[1], r[2]) =>
              IF Overlapped(folds, r[1], r[2])
              THEN ApplyEffect(folds, Effect(r[1], r[2], ds)) = folds
              ELSE InsertedAt(folds, ApplyEffect(folds, Effect(r[1], r[2], ds)), r[1], r[2])
    /\ OneRequestStep =>
          LET e == last.effs[1]
          IN  e.defaultState \in {"undefined", "true"} /\ ~HasExact(last.pre, e.from, e.to)
                => IF Overlapped(last.pre, e.from, e.to)
                   THEN folds = last.pre
                   ELSE InsertedAt(last.pre, folds, e.from, e.to)

\* a toggle or force-collapse has just named a span that an entry with other
\* bounds overlaps, and the store is as it was
C7_Witness ==
    /\ OneRequestStep
    /\ last.effs[1].defaultState \in {"undefined", "true"}
    /\ ~HasExact(last.pre, last.effs[1].from, last.effs[1].to)
    /\ Overlapped(last.pre, last.effs[1].from, last.effs[1].to)
    /\ folds = last.pre

----------------------------------------------------------------------------
(* C8 *)

\* C8 (force-expand): a force-expand request removes the entries at exactly
\* (from, to) and nothing else, and is a no-op when there is none; for every
\* span on every reachable store, and for the transactions taken.
C8_ForceExpand ==
    /\ \A r \in Requests(doc) :
          RemovedAt(folds, ApplyEffect(folds, Effect(r[1], r[2], "false")), r[1], r[2])
    /\ OneRequestStep /\ last.effs[1].defaultState = "false"
          => RemovedAt(last.pre, folds, last.effs[1].from, last.effs[1].to)

\* the expand button has just removed the entry its request named
C8_Witness ==
    /\ last.op = "expand"
    /\ HasExact(last.pre, last.effs[1].from, last.effs[1].to)
    /\ ~HasExact(folds, last.effs[1].from, last.effs[1].to)
    /\ Len(folds) = Len(last.pre) - 1

----------------------------------------------------------------------------
(* C9 *)

\* C9 (toggle flips): a transaction carrying one toggle request removes the
\* entry at exactly (from, to) when there is one, and inserts an entry at
\* exactly (from, to) when there is none.
C9_ToggleFlips ==
    OneRequestStep /\ last.effs[1].defaultState = "undefined" =>
        LET e == last.effs[1]
        IN  IF HasExact(last.pre, e.from, e.to)
            THEN RemovedAt(last.pre, folds, e.from, e.to)
            ELSE InsertedAt(last.pre, folds, e.from, e.to)

\* C9, amended: a toggle request removes the entry at exactly (from, to) when
\* there is one; when there is none it inserts an entry at exactly (from, to) if
\* no entry overlaps or touches [from, to], and changes nothing otherwise.
C9_ToggleFlipsUnlessOverlapped ==
    /\ \A r \in Requests(doc) :
          LET post == ApplyEffect(folds, Effect(r[1], r[2], "undefined"))
          IN  IF HasExact(folds, r[1], r[2]) THEN RemovedAt(folds, post, r[1], r[2])
              ELSE IF Overlapped(folds, r[1], r[2]) THEN post = folds
              ELSE InsertedAt(folds, post, r[1], r[2])
    /\ OneRequestStep /\ last.effs[1].defaultState = "undefined" =>
          LET e == last.effs[1]
          IN  IF HasExact(last.pre, e.from, e.to) THEN RemovedAt(last.pre, folds, e.from, e.to)
              ELSE IF Overlapped(last.pre, e.from, e.to) THEN folds = last.pre
              ELSE InsertedAt(last.pre, folds, e.from, e.to)

\* the keyboard command has just removed the entry of the span it named
C9_Witness ==
    /\ last.op = "key"
    /\ last.effs # <<>>
    /\ HasExact(last.pre, last.effs[1].from, last.effs[1].to)
    /\ ~HasExact(folds, last.effs[1].from, last.effs[1].to)

----------------------------------------------------------------------------
(* C10 *)

\* C10 (toggle isolation): a toggle, force-collapse or force-expand request for
\* a span adds, removes and changes no entry whose bounds differ from the
\* span's; for every span on every reachable store, and for the transactions
\* taken.
C10_ToggleIsolation ==
    /\ \A r \in Requests(doc) : \A ds \in {"undefined", "true", "false"} :
          OthersKept(folds, ApplyEffect(folds, Effect(r[1], r[2], ds)), r[1], r[2])
    /\ OneRequestStep => OthersKept(last.pre, folds, last.effs[1].from, last.effs[1].to)

\* a request has just changed the store while an entry with other bounds was in it
C10_Witness ==
    /\ OneRequestStep
    /\ folds # last.pre
    /\ \E i \in DOMAIN last.pre :
          last.pre[i].from # last.effs[1].from \/ last.pre[i].to # last.effs[1].to

\* C11: on both surfaces the resolved default is collapsed when the front-matter
\* value, compared without regard to case, is the word collapsed, expanded when
\* it is the word expanded, and the global default when the field is absent or
\* holds any other value.
ExpectedDefault(fm, dc) ==
    IF fm.kind = "string" /\ [i \in DOMAIN fm.text |-> LowerChar(fm.text[i])] = WordCollapsed
    THEN "collapsed"
    ELSE IF fm.kind = "string" /\ [i \in DOMAIN fm.text |-> LowerChar(fm.text[i])] = WordExpanded
    THEN "expanded"
    ELSE IF dc THEN "collapsed" ELSE "expanded"

C11_ResolutionOrder ==
    \A out \in {resOut.edit, resOut.read} \ {"none"} : out = ExpectedDefault(resFm, resDefault)

\* C11 restricted to front-matter values that are strings or absent
C11_ResolutionOrderOfStrings ==
    resFm.kind \in {"absent", "string"} => C11_ResolutionOrder

----------------------------------------------------------------------------
(* C12 *)

\* the front-matter of the active file says collapsed, in any spelling
FrontmatterSaysCollapsed ==
    ExpectedDefault(frontmatter, TRUE) = "collapsed" /\ ExpectedDefault(frontmatter, FALSE) = "collapsed"

\* the regions of the files whose front-matter says collapsed, as they are opened
CollapsedFileSpans ==
    UNION {Range(codeBlockPositions(FileDoc(p))) :
             p \in {q \in Paths : ExpectedDefault(FileFrontmatter(q), FALSE) = "collapsed"}}

\* the document has just been opened and its regions drawn for the first time
FirstRendered(sp) ==
    /\ last.op \in {"init", "open"}
    /\ sp \in Range(positions)
    /\ ~Overlapped(folds, sp.startPos, sp.endPos)

\* C12 (Scenario B): when the front-matter says collapsed, whatever the global
\* default, the first render of a region without a store entry is eventually
\* followed by a state where the region is folded, given that a frame with
\* waiting callbacks eventually runs.
C12_ScenarioB ==
    \A sp \in CollapsedFileSpans :
        (FrontmatterSaysCollapsed /\ FirstRendered(sp))
            ~> HasExact(folds, sp.startPos, sp.endPos)

\* the frame has just applied the deferred force-collapse of a file whose
\* front-matter says collapsed while the global default is expanded
C12_Witness ==
    /\ FrontmatterSaysCollapsed
    /\ ~defaultCollapsed
    /\ last.op = "raf"
    /\ last.pre = <<>>
    /\ \E sp \in Range(positions) : HasExact(folds, sp.startPos, sp.endPos)

----------------------------------------------------------------------------
(* C13 *)

\* the global default is expanded and the front-matter of the active file does
\* not override it
ScenarioA ==
    /\ ~defaultCollapsed
    /\ ExpectedDefault(frontmatter, TRUE) = "collapsed"
    /\ ExpectedDefault(frontmatter, FALSE) = "expanded"

\* nothing is folded and no force-collapse is waiting for a frame
Quiet == folds = <<>> /\ pending = <<>>

----------------------------------------------------------------------------
(* C14, C15 *)

\* the caret offsets of a located region: its fence lines and what is between
CaretsIn(sp) == sp.startPos..sp.endPos

\* C14 (keyboard command span): for every caret offset inside a located region,
\* on its opening fence line, in its content or on its closing fence line, and
\* also when the region runs unterminated to the end of the document, the
\* command requests a toggle of exactly that region's span.
C14_KeyboardSpan ==
    \A sp \in Range(positions) : \A p \in CaretsIn(sp) :
        CursorSpan(doc, p) = [startPos |-> sp.startPos, endPos |-> sp.endPos]

\* C15 (keyboard no-op): for every caret offset outside all located regions the
\* command requests nothing.
C15_KeyboardNoOp ==
    \A p \in 0..Len(doc) :
        (\A sp \in Range(positions) : p \notin CaretsIn(sp)) => CursorSpan(doc, p) = NoSpan

----------------------------------------------------------------------------
(* C16 *)

\* the lines of d that are marked and whose trimmed text starts with three backticks
MarkedFenceLines(d, begins) ==
    {i \in DOMAIN Lines(d) : Lines(d)[i].from \in begins /\ StartsWithFence(LineText(d, Lines(d)[i]))}

\* the end of the first line after line i whose trimmed text starts with three
\* backticks, the end of the document when there is none
FirstLaterFenceEnd(d, i) ==
    LET later == {j \in DOMAIN Lines(d) : j > i /\ StartsWithFence(LineText(d, Lines(d)[j]))}
    IN  IF later = {} THEN Len(d) ELSE Lines(d)[Min(later)].to

\* C16 (locator matching rule): the locator returns exactly one span for each
\* marked line whose trimmed text starts with three backticks, from the start of
\* that line to the end of the first later line that starts with three
\* backticks, or to the end of the document when there is none, and it returns
\* no span for any other line.
C16_MatchingRule ==
    locOut.done =>
        /\ Range(locOut.spans) =
              {[startPos |-> Lines(locDoc)[i].from, endPos |-> FirstLaterFenceEnd(locDoc, i)] :
                 i \in MarkedFenceLines(locDoc, locBegins)}
        /\ Len(locOut.spans) = Cardinality(MarkedFenceLines(locDoc, locBegins))

\* the locator has run on a document with a closed region, an unterminated
\* region and a marked line that is no fence
C16_Witness ==
    /\ locOut.done
    /\ Len(locOut.spans) >= 2
    /\ \E i \in DOMAIN locOut.spans : locOut.spans[i].endPos < Len(locDoc)
    /\ \E i \in DOMAIN Lines(locDoc) :
          Lines(locDoc)[i].from \in locBegins /\ i \notin MarkedFenceLines(locDoc, locBegins)

----------------------------------------------------------------------------
(* C17 *)

\* the numbers of the lines of d that lie inside (from, to)
LinesWithin(d, from, to) ==
    {i \in DOMAIN Lines(d) : from <= Lines(d)[i].from /\ Lines(d)[i].to <= to}

\* the content lines of the region (from, to) of d in order: its lines without
\* the first one (the opening fence) and without the last one when that is a
\* closing fence
ContentLineNumbers(d, from, to) ==
    LET W     == LinesWithin(d, from, to)
        inner == W \ {Min(W)}
    IN  IF W = {} THEN {}
        ELSE IF inner # {} /\ StartsWithFence(LineText(d, Lines(d)[Max(inner)]))
        THEN inner \ {Max(inner)}
        ELSE inner

\* the text of the first n of those content lines
RECURSIVE TextOfLines(_, _, _)
TextOfLines(d, S, n) ==
    IF S = {} \/ n = 0 THEN <<>>
    ELSE LET i == Min(S)
         IN  IF S = {i} \/ n = 1 THEN LineText(d, Lines(d)[i])
             ELSE LineText(d, Lines(d)[i]) \o <<NL>> \o TextOfLines(d, S \ {i}, n - 1)

\* C17 (collapsed preview content): whenever the summary view of a store entry
\* is drawn, for every collapsedLines it shows exactly the first
\* min(collapsedLines, k) of the k content lines of the entry's current region
\* in the current document, never a fence line, and nothing for collapsedLines = 0.
C17_PreviewContent ==
    \A i \in DOMAIN folds : \A n \in 0..MaxCollapsedLines :
        FoldedPreview(doc, folds[i], n)
            = TextOfLines(doc, ContentLineNumbers(doc, folds[i].from, folds[i].to), n)

----------------------------------------------------------------------------
(* C18 *)

\* the collapsed flags of the preview's blocks
CollapsedFlags(pv) == [b \in PreBlocks |-> pv[b].collapsed]

\* C18 (surface independence): a step that changes anything of the editor (a
\* toggle request, an edit, a default collapse, the keyboard command) leaves the
\* collapsed flag of every preview block as it was, and a step that changes the
\* preview leaves the editor's fold store as it was.
C18_SurfaceIndependence ==
    [][/\ editorVars' # editorVars => CollapsedFlags(preview') = CollapsedFlags(preview)
       /\ preview' # preview => folds' = folds]_vars

\* the editor has folded the region by default and the user has expanded a
\* default-collapsed block of the preview: the surfaces disagree
C18_Witness ==
    /\ folds # <<>>
    /\ \E i \in DOMAIN initCount : initCount[i].scheduled = 1
    /\ pvLast.op = "toggle"
    /\ \E b \in pvLast.blocks : preview[b].applied = 1 /\ ~preview[b].collapsed

----------------------------------------------------------------------------
(* C19 *)

\* C19 (preview processing is idempotent): after any number of calls of
\* processNewCodeBlocks, a block that was in the subtree of some call has exactly
\* one toggle button and its default collapse was applied at most once, a block
\* that was in none has no button, and a call did not change the collapsed flag
\* of a block that an earlier call had processed.
C19_ProcessIdempotent ==
    \A b \in PreBlocks :
        /\ preview[b].buttons = (IF preview[b].seen THEN 1 ELSE 0)
        /\ preview[b].applied <= 1
        /\ (pvLast.op = "process" /\ pvLast.pre[b].seen)
              => preview[b].collapsed = pvLast.pre[b].collapsed

\* a call on a subtree holding a new block and a block that was collapsed by
\* default and then expanded by the user has left the latter expanded
C19_Witness ==
    /\ pvLast.op = "process"
    /\ \E b \in pvLast.blocks :
          pvLast.pre[b].seen /\ pvLast.pre[b].applied = 1 /\ ~preview[b].collapsed
    /\ \E c \in pvLast.blocks : ~pvLast.pre[c].seen /\ preview[c].buttons = 1

----------------------------------------------------------------------------
(* C20 *)

\* C20 (configuration boundary): whatever payload was loaded and whatever was
\* typed into the settings panel, the collapsedLines value the fold renderer
\* reads is an integer and is not negative.
C20_ConfigBoundary == collapsedLines.kind = "integer" /\ collapsedLines.val >= 0

\* C20 for the values set by the settings panel alone
C20_ConfigBoundaryOfPanel == typed # <<>> => C20_ConfigBoundary

----------------------------------------------------------------------------
(* C21: fold state across note switches *)

\* what the toggle widget of region i shows once the draw that follows the
\* file-open has had its frame: folded, or scheduled to be folded by default
CollapsedOnReturn(i) ==
    \/ IsFolded(folds, positions[i])
    \/ getBlockId(path, positions[i]) \in last.scheduled

\* C21 (State across note switches): after the user has switched from a note to
\* another note and back again, every code block of the first note has the
\* collapsed or expanded state it had just before the user left the note.
C21_StateAcrossSwitches ==
    (last.op = "open" /\ left[path] # NotLeft /\ left[path].settled) =>
        \A i \in DOMAIN positions : CollapsedOnReturn(i) = left[path].folded[i]

----------------------------------------------------------------------------
(* C22: the requests the guard appends *)

\* the bounds a sequence of requests names
NamedBounds(es) == {<<es[k].from, es[k].to>> : k \in DOMAIN es}

\* the bounds of the entries of fs that the change range of c overlaps or touches
TouchedBounds(fs, c) ==
    {<<fs[i].from, fs[i].to>> : i \in {j \in DOMAIN fs : c.fromA <= fs[j].to /\ c.toA >= fs[j].from}}

\* C22 (Guard request set): for every transaction that changes the document, the
\* bounds named by the force-expand requests the guard appends are exactly the
\* bounds of the entries folded before the edit that the change range overlaps or
\* touches (all of them when it touches several); a transaction that does not
\* change the document carries only the request its handler dispatched.
C22_GuardRequestSet ==
    /\ last.op = "edit" =>
          /\ NamedBounds(last.effs) = TouchedBounds(last.pre, last.chg)
          /\ \A k \in DOMAIN last.effs : last.effs[k].defaultState = "false"
    /\ last.op = "click" => last.effs = <<ClickEffect(last.pre, last.span)>>
    /\ last.op = "key" => Len(last.effs) <= 1
    /\ last.op = "expand" => Len(last.effs) = 1
    /\ last.op = "raf" => \A k \in DOMAIN last.effs : last.effs[k].defaultState = "true"

\* an edit touched two folded entries and the guard named both
C22_Witness ==
    /\ last.op = "edit"
    /\ Cardinality(TouchedBounds(last.pre, last.chg)) = 2
    /\ Cardinality(NamedBounds(last.effs)) = 2

----------------------------------------------------------------------------
(* C23: edits outside the folded entries *)

\* the change range of c neither overlaps nor touches an entry of fs
Untouched(fs, c) == \A i \in DOMAIN fs : c.toA < fs[i].from \/ fs[i].to < c.fromA

\* the bounds of entry f after a change that lies wholly before or wholly after it
BoundsAfter(f, c) ==
    IF c.toA < f.from
    THEN <<f.from + Len(c.ins) - (c.toA - c.fromA), f.to + Len(c.ins) - (c.toA - c.fromA)>>
    ELSE <<f.from, f.to>>

\* C23 (Edits outside folds): an edit whose change range neither overlaps nor
\* touches any folded entry makes the guard append no request, and every entry
\* folded before the edit is folded after it, moved along with its text.
C23_EditsOutsideFolds ==
    (last.op = "edit" /\ Untouched(last.pre, last.chg)) =>
        /\ last.effs = <<>>
        /\ Ranges(folds) = [i \in DOMAIN last.pre |-> BoundsAfter(last.pre[i], last.chg)]

\* an edit before a folded entry moved it and left it folded
C23_Witness ==
    /\ last.op = "edit"
    /\ last.pre # <<>>
    /\ Untouched(last.pre, last.chg)
    /\ Ranges(folds) # Ranges(last.pre)
    /\ Len(folds) = Len(last.pre)

----------------------------------------------------------------------------
(* C24: folded entries and the located regions after an edit elsewhere *)

\* entry i of the store before the last edit was a located block of the document
\* before the edit, and the change range lay wholly before or after it
FoldedBlockLeftAlone(i) ==
    /\ last.op = "edit"
    /\ \E sp \in Range(codeBlockPositions(last.docBefore)) :
           sp.startPos = last.pre[i].from /\ sp.endPos = last.pre[i].to
    /\ last.chg.toA < last.pre[i].from \/ last.pre[i].to < last.chg.fromA

\* the located region sp of the document has exactly the bounds b, an entry has
\* them too, and the toggle widget of sp reports it folded
AnchoredAt(sp, b) ==
    /\ sp.startPos = b[1]
    /\ sp.endPos = b[2]
    /\ HasExact(folds, b[1], b[2])
    /\ IsFolded(folds, sp)

\* C24 (Fold anchoring), as stated: after any edit that lies wholly before or
\* after a folded block without touching it, the entry's remapped bounds are the
\* span the Region Locator computes for that block in the new document, and the
\* toggle widget reports it folded.
C24_FoldAnchoring ==
    last.op = "edit" =>
        \A i \in DOMAIN last.pre :
            FoldedBlockLeftAlone(i) =>
                \E sp \in Range(positions) : AnchoredAt(sp, BoundsAfter(last.pre[i], last.chg))

\* C24 (Fold anchoring), amended: the same, for the edits after which the Region
\* Locator still reports a region that starts at the block's opening fence.
C24_AnchoringWhereStillLocated ==
    last.op = "edit" =>
        \A i \in DOMAIN last.pre :
            FoldedBlockLeftAlone(i) =>
                \A sp \in Range(positions) :
                    sp.startPos = BoundsAfter(last.pre[i], last.chg)[1] =>
                        AnchoredAt(sp, BoundsAfter(last.pre[i], last.chg))

\* an edit before a folded block moved the block, and the entry moved with it
C24_Witness ==
    /\ last.op = "edit"
    /\ \E i \in DOMAIN last.pre :
          /\ FoldedBlockLeftAlone(i)
          /\ BoundsAfter(last.pre[i], last.chg) # <<last.pre[i].from, last.pre[i].to>>
          /\ \E sp \in Range(positions) : AnchoredAt(sp, BoundsAfter(last.pre[i], last.chg))

----------------------------------------------------------------------------
(* C25: the expand affordance of the summary view *)

\* C25 (Expand affordance always works): whenever the user activates the expand
\* affordance in the summary view of a folded entry, that entry is no longer in
\* the store afterwards, also when an earlier edit elsewhere has moved the entry.
C25_ExpandAlwaysWorks ==
    last.op = "expand" =>
        /\ ~HasExact(folds, last.span.startPos, last.span.endPos)
        /\ Len(folds) < Len(last.pre)

----------------------------------------------------------------------------
(* C26: deferred requests whose region is gone or has moved *)

\* the request e names a span that is no located region of the current document
Stale(e) == ~\E sp \in Range(positions) : sp.startPos = e.from /\ sp.endPos = e.to

\* C26 (Implicit cancellation of deferred requests): when the region a default
\* force-collapse was scheduled for has been deleted, or its offsets have
\* changed, before the animation frame runs, applying the request does not
\* change the store: no entry appears at the offsets the request names.
C26_StaleRequestIsNoOp ==
    last.op = "raf" =>
        /\ \A k \in DOMAIN last.effs :
              Stale(last.effs[k]) =>
                  (HasExact(folds, last.effs[k].from, last.effs[k].to)
                     => HasExact(last.pre, last.effs[k].from, last.effs[k].to))
        /\ (\A k \in DOMAIN last.effs : Stale(last.effs[k])) => folds = last.pre

----------------------------------------------------------------------------
(* C27: deferred requests and user events *)

\* the steps a user takes: toggle click, expand click, keyboard command, edit
UserOps == {"click", "expand", "key", "edit"}

\* C27 (Deferred ordering): a default force-collapse scheduled during a draw is
\* applied before any user event is processed: while a scheduled request waits
\* for its animation frame, the next step is never a toggle click, a keyboard
\* command or an edit.
C27_DeferredOrdering == [][pending # <<>> => last'.op \notin UserOps]_vars

----------------------------------------------------------------------------
(* C28: toggle requests are the only way the store changes *)

\* the last step drew widgets without a toggle request and without a document change
DrawOnly == last.op \in {"init", "render", "select"}

\* the force-collapse scheduled for block id waits for its animation frame
Waiting(id) == \E k \in DOMAIN pending : getBlockId(path, [startPos |-> pending[k].from,
                                                            endPos |-> pending[k].to]) = id

\* C28 (Toggle requests are the only mutation vector): a transaction without a
\* toggle request and without a document change leaves the store as it was,
\* and so does the drawing of a widget, default-state application included: what
\* it schedules waits for a later transaction and is not in the store yet.
C28_OnlyRequestsMutate ==
    /\ last.op \in {"render", "select"} => folds = last.pre
    /\ last.op = "init" => folds = <<>>
    /\ DrawOnly => last.effs = <<>> /\ ~DocChanged(last.chg)
    /\ DrawOnly => \A id \in last.scheduled : Waiting(id) /\ ~HasExact(folds, id[2], id[3])

\* a caret movement drew the widgets again over a store that holds an entry
C28_Witness ==
    /\ last.op = "select"
    /\ folds # <<>>
    /\ folds = last.pre
    /\ last.resolved = {}

\* the first draw scheduled a default force-collapse and the store is still empty
C28_WitnessScheduled ==
    /\ last.op = "init"
    /\ last.scheduled # {}
    /\ folds = <<>>

----------------------------------------------------------------------------
(* C29: the order in which one transaction is reduced *)

\* the requests es applied to fs one by one in the order they were issued
RECURSIVE InIssueOrder(_, _)
InIssueOrder(fs, es) ==
    IF es = <<>> THEN fs ELSE InIssueOrder(ApplyEffect(fs, Head(es)), Tail(es))

\* the spans the requests issued in this state can name: the located regions,
\* the spans the keyboard command finds, and the bounds of the entries
IssuedSpans ==
    {<<sp.startPos, sp.endPos>> : sp \in Range(positions) \cup (CursorSpans(doc) \ {NoSpan})}
    \cup {<<folds[i].from, folds[i].to>> : i \in DOMAIN folds}

\* the store after one transaction that carries a force-collapse and then a
\* force-expand of the span r, and after one that carries them the other way round
CollapseThenExpand(r) ==
    FoldFieldUpdate(folds, NoChange, <<Effect(r[1], r[2], "true"), Effect(r[1], r[2], "false")>>)

ExpandThenCollapse(r) ==
    FoldFieldUpdate(folds, NoChange, <<Effect(r[1], r[2], "false"), Effect(r[1], r[2], "true")>>)

----------------------------------------------------------------------------
(* C30: entries whose text is deleted *)

\* the change c deletes the whole text of entry f and puts nothing in its place
DeletesWholeText(f, c) == c.ins = <<>> /\ c.fromA <= f.from /\ f.to <= c.toA

Vanished == {i \in DOMAIN last.pre : DeletesWholeText(last.pre[i], last.chg)}

\* C30 (Vanishing spans are dropped): after an edit that deletes the whole text
\* of a folded span, so that its remapped span has zero width, the store holds
\* no entry for that span: every entry left has text, none sits at the place of
\* the deletion, and the store is shorter by the entries that vanished.
C30_VanishingSpansDropped ==
    last.op = "edit" =>
        /\ \A j \in DOMAIN folds : folds[j].from < folds[j].to
        /\ Vanished # {} =>
              /\ ~\E j \in DOMAIN folds :
                     folds[j].from <= last.chg.fromA /\ last.chg.fromA <= folds[j].to
                       /\ folds[j].to - folds[j].from = 0
              /\ Len(folds) <= Len(last.pre) - Cardinality(Vanished)

\* an edit deleted the whole text of a folded span and the store lost the entry
C30_Witness ==
    /\ last.op = "edit"
    /\ Vanished # {}
    /\ Len(folds) = Len(last.pre) - Cardinality(Vanished)

----------------------------------------------------------------------------
(* C31: one entry per span *)

\* C31 (Unique entry per span): in every reachable state, whatever toggle
\* requests, forced requests, deferred default requests and edits came before,
\* the store holds at most one entry with any given (from, to).
C31_UniqueEntryPerSpan ==
    \A i \in DOMAIN folds : \A j \in DOMAIN folds :
        (folds[i].from = folds[j].from /\ folds[i].to = folds[j].to) => i = j

\* a force-collapse named a span that already had an entry, and the span has
\* one entry afterwards
C31_Witness ==
    /\ OneRequestStep
    /\ last.effs[1].defaultState = "true"
    /\ HasExact(last.pre, last.effs[1].from, last.effs[1].to)
    /\ Cardinality(ExactEntries(folds, last.effs[1].from, last.effs[1].to)) = 1

----------------------------------------------------------------------------
(* C32: whose set of initialized blocks it is *)

\* C32 (Per-view ownership of the initialization set): while the document of a
\* view stays open, only the renders of this view change its set of initialized
\* blocks; a file-open event or a render in another pane never makes the
\* default state be resolved again for a block of this document. Every block
\* was resolved by the first draw, so no later step resolves one.
C32_PerViewOwnership ==
    /\ last.op # "init" => last.resolved = {}
    /\ last.op = "paneopen" =>
          \A sp \in Range(positions) : \E p \in Paths : getBlockId(p, sp) \in initializedBlocks

----------------------------------------------------------------------------
(* C33: the set of initialized blocks after a file-open event *)

\* C33 (Initialization set reset on document switch): every file-open event
\* empties the set of initialized blocks, so the first draw of the newly opened
\* document resolves the default state of each of its regions exactly once,
\* whatever was initialized in the previous document: right after the event
\* and that draw the set holds the regions of the new document and nothing else.
C33_ResetOnSwitch ==
    last.op = "open" =>
        /\ initializedBlocks = {getBlockId(path, sp) : sp \in Range(positions)}
        /\ last.resolved = initializedBlocks
        /\ \A id \in initializedBlocks : initCount[id].resolved = 1

\* a file was opened after an edit had put other block ids into the set, and
\* the set holds the two regions of the file opened
C33_Witness ==
    /\ last.op = "open"
    /\ nEdits = 1
    /\ Cardinality(last.resolved) = 2
    /\ last.resolved = initializedBlocks

----------------------------------------------------------------------------
(* C34: a click on the toggle widget *)

\* C34 (Toggle affordance click flips the span): in every reachable state, a
\* click on the toggle widget drawn for a span leaves the span in the opposite
\* of the state it had when the widget was clicked: folded if it was unfolded,
\* unfolded if it was folded.
C34_ClickFlips ==
    last.op = "click" => IsFolded(folds, last.span) = ~IsFolded(last.pre, last.span)

----------------------------------------------------------------------------
(* C35: the toggle button of a preview block *)

\* the collapsed flag of block b is the opposite of what it was before the last step
Flipped(b) == preview[b].collapsed = ~pvLast.pre[b].collapsed

\* C35 (Preview toggle consistency): for every processed block of the preview,
\* after any sequence of clicks and key presses on its toggle button, each
\* click and each Enter or Space flips the block's collapsed flag, any other
\* key changes nothing, and the button shows the expand icon exactly when the
\* block has the collapsed flag and the collapse icon otherwise.
C35_PreviewToggleConsistency ==
    /\ \A b \in PreBlocks :
          preview[b].buttons >= 1 =>
              preview[b].icon = (IF preview[b].collapsed THEN "expandIcon" ELSE "collapseIcon")
    /\ pvLast.op = "toggle" => \A b \in pvLast.blocks : Flipped(b)
    /\ (pvLast.op = "keydown" /\ pvLast.key \in {"Enter", " "}) =>
          \A b \in pvLast.blocks : Flipped(b)
    /\ (pvLast.op = "keydown" /\ pvLast.key \notin {"Enter", " "}) => preview = pvLast.pre
    /\ pvLast.op \in {"toggle", "keydown"} =>
          \A b \in PreBlocks \ pvLast.blocks : preview[b] = pvLast.pre[b]

\* Space has just expanded a block that was collapsed, and its button shows
\* the collapse icon
C35_Witness ==
    /\ pvLast.op = "keydown"
    /\ pvLast.key = " "
    /\ \E b \in pvLast.blocks :
          /\ pvLast.pre[b].collapsed
          /\ ~preview[b].collapsed
          /\ preview[b].icon = "collapseIcon"

----------------------------------------------------------------------------
(* C36: entries and located regions *)

\* C36 (Folds correspond to regions): in every reachable state, after any
\* sequence of edits, toggle clicks, keyboard commands and deferred default
\* requests, every entry of the store has the bounds of a span the Region
\* Locator returns for the current document.
C36_FoldsAreRegions ==
    \A i \in DOMAIN folds :
        \E sp \in Range(positions) : sp.startPos = folds[i].from /\ sp.endPos = folds[i].to

----------------------------------------------------------------------------
(* C37: entries do not overlap *)

\* C37 (Fold entries never overlap): in every reachable state the entries of
\* the store are pairwise disjoint offset ranges, kept in the order of their
\* offsets: no two entries share a character.
C37_EntriesDisjoint ==
    \A i \in DOMAIN folds : \A j \in DOMAIN folds :
        i < j => folds[i].from < folds[i].to /\ folds[i].to <= folds[j].from

\* an edit has moved two entries, and they are still two disjoint entries
C37_Witness ==
    /\ last.op = "edit"
    /\ Len(folds) = 2
    /\ Len(last.pre) = 2
    /\ Ranges(folds) # Ranges(last.pre)
    /\ folds[1].to <= folds[2].from

\* a force-collapse that named a range overlapping an entry added nothing
C37_WitnessRefused ==
    /\ OneRequestStep
    /\ last.effs[1].defaultState = "true"
    /\ Overlapped(last.pre, last.effs[1].from, last.effs[1].to)
    /\ ~HasExact(last.pre, last.effs[1].from, last.effs[1].to)
    /\ folds = last.pre

----------------------------------------------------------------------------
(* C38: the content observer and the processing it triggers *)

\* C38 (Preview observer feedback terminates): the loop of DOM insertion,
\* mutation observer, processNewCodeBlocks, button inserted into the block,
\* mutation observer comes to rest: whenever mutation records wait for the
\* observer, a state with no record waiting follows after finitely many
\* callbacks.
C38_ObserverTerminates == (records # <<>>) ~> (records = <<>>)

\* the observer has just set up a block the host had inserted, and the records
\* of that very processing now wait for the observer
C38_Witness ==
    /\ pvLast.op = "observer"
    /\ records # <<>>
    /\ \E b \in pvLast.blocks :
          /\ pvLast.pre[b].seen
          /\ pvLast.pre[b].buttons = 0
          /\ preview[b].buttons = 1

\* and the callback for those records has left nothing behind
C38_WitnessQuiet ==
    /\ pvLast.op = "observer"
    /\ pvLast.blocks = {}
    /\ records = <<>>
    /\ \A b \in PreBlocks : preview[b].seen /\ preview[b].buttons = 1

====
